---- MODULE Spec2Model ----
(***************************************************************************)
(* A model of prof-rs (src/client/rust/prof-rs/src/lib.rs): the ProfClient *)
(* HTTP client of the "prof" profile service and its ProfileBuilder.       *)
(*                                                                         *)
(* Representation.                                                         *)
(*  - A Rust String is a sequence of fragments (TLA+ strings); format! and *)
(*    push_str are \o.  Literals of the source are one fragment; a string  *)
(*    whose characters the code inspects (base_url) is given one character *)
(*    per fragment.                                                        *)
(*  - Option<T> is None or Some(x).                                        *)
(*  - serde_json::Value is a tagged record (JNull, JBool, JNum, JStr,      *)
(*    JArr, JObj); a JSON object is a function from its keys to values.    *)
(*  - A HashMap is a function from its keys to its values.                 *)
(*  - JSON text received from the server is kept as written: an object is *)
(*    the sequence of its members, so a key may be written twice.          *)
(*  - An async operation is an action per resumption: the call up to      *)
(*    send().await, the return of send().await, the return of the body     *)
(*    read.  The operations take &self, so several may be in flight.       *)
(***************************************************************************)
EXTENDS Integers, Sequences, FiniteSets, TLC

VARIABLES
    url_arg,    \* the base_url argument handed to ProfClient::new
    client,     \* the ProfClient: [base_url, sessionless], or Unbuilt
    now,        \* SystemTime::now() as milliseconds since the epoch
    calls,      \* the invocations on the client, by the future that runs them
    builder,    \* ProfileBuilder.data
    chain,      \* the ProfileBuilder calls made so far, oldest first
    built       \* what ProfileBuilder::build returned

vars == <<url_arg, client, now, calls, builder, chain, built>>

---------------------------------------------------------------------------
(* Bounds of the model.                                                    *)

\* Longest base_url argument, in characters.
MaxUrlLen == 4
\* Largest clock value (milliseconds since the epoch).
MaxClock == 1
\* Longest chain of ProfileBuilder calls before build.
MaxChain == 3
\* Most futures of the client's operations the caller holds at a time.
MaxInFlight == 2

---------------------------------------------------------------------------
(* Option, HashMap and String helpers.                                     *)

None == [some |-> FALSE]
Some(x) == [some |-> TRUE, v |-> x]

\* HashMap::new
EmptyMap == [k \in {} |-> None]

\* HashMap::insert: the new value replaces any value the key had.
MapInsert(m, k, v) == [x \in (DOMAIN m) \cup {k} |-> IF x = k THEN v ELSE m[x]]

\* HashMap::get / serde_json::Value::get on an object
MapGet(m, k) == IF k \in DOMAIN m THEN Some(m[k]) ELSE None

\* Option::unwrap_or_else with a constant default
UnwrapOr(o, d) == IF o.some THEN o.v ELSE d

\* str::ends_with(char)
EndsWith(s, c) == Len(s) > 0 /\ s[Len(s)] = c

\* str::trim_end_matches(char): every trailing occurrence is removed.
RECURSIVE TrimEndMatches(_, _)
TrimEndMatches(s, c) ==
    IF EndsWith(s, c) THEN TrimEndMatches(SubSeq(s, 1, Len(s) - 1), c) ELSE s

\* One digit of u128::to_string
Digit(d) == CASE d = 0 -> "0" [] d = 1 -> "1" [] d = 2 -> "2" [] d = 3 -> "3"
              [] d = 4 -> "4" [] d = 5 -> "5" [] d = 6 -> "6" [] d = 7 -> "7"
              [] d = 8 -> "8" [] d = 9 -> "9"

\* u128::to_string: the decimal digits, most significant first.
RECURSIVE ToDecimal(_)
ToDecimal(n) == IF n < 10 THEN <<Digit(n)>> ELSE ToDecimal(n \div 10) \o <<Digit(n % 10)>>

---------------------------------------------------------------------------
(* serde_json::Value                                                       *)

JNull == [t |-> "null"]
JBool(b) == [t |-> "bool", b |-> b]
JNum(n) == [t |-> "num", n |-> n]
JStr(s) == [t |-> "str", s |-> s]
JArr(a) == [t |-> "arr", a |-> a]
JObj(o) == [t |-> "obj", o |-> o]

\* Value::as_str
AsStr(v) == IF v.t = "str" THEN Some(v.s) ELSE None

\* Value::as_array
AsArray(v) == IF v.t = "arr" THEN Some(v.a) ELSE None

\* Value::get(&str): a member of an object, None on every other value.
ValueGet(v, k) == IF v.t = "obj" THEN MapGet(v.o, k) ELSE None

\* JSON as it is written in a text.  Scalars are written as the values
\* above and an array as JArr of written elements; an object is the
\* sequence of its members in the order of the text, where one key may be
\* written more than once.
JMember(k, v) == [k |-> k, v |-> v]
JMembers(m) == [t |-> "members", m |-> m]

\* The members of a written object that have the key k, in order.
MembersNamed(d, k) == SelectSeq(d.m, LAMBDA e : e.k = k)

\* The Value serde_json reads from written JSON: the map of an object
\* keeps, for a key written more than once, the member written last.
RECURSIVE ValueOf(_)
ValueOf(d) ==
    CASE d.t = "arr" -> JArr([i \in 1..Len(d.a) |-> ValueOf(d.a[i])])
      [] d.t = "members" ->
            JObj([k \in {d.m[i].k : i \in 1..Len(d.m)} |->
                     ValueOf(MembersNamed(d, k)[Len(MembersNamed(d, k))].v)])
      [] OTHER -> d

---------------------------------------------------------------------------
(* ProfClient::new                                                         *)

Unbuilt == [state |-> "none"]

\* Faulty variant of NormalizeBaseUrl: strip_suffix, one '/' removed.
NormalizeOneSlashOnly(base_url) ==
    IF EndsWith(base_url, "/") THEN SubSeq(base_url, 1, Len(base_url) - 1) ELSE base_url

\* The normalisation of base_url in ProfClient::new.
NormalizeBaseUrl(base_url) ==
    IF EndsWith(base_url, "/") THEN TrimEndMatches(base_url, "/") ELSE base_url

\* ProfClient::new: the client it returns.
new(base_url) ==
    [state |-> "ready", base_url |-> NormalizeBaseUrl(base_url), sessionless |-> None]

\* The base_url arguments tried: every string of at most MaxUrlLen characters.
UrlChars == {"h", ":", "/"}
UrlArgs == UNION {[1..n -> UrlChars] : n \in 0..MaxUrlLen}

---------------------------------------------------------------------------
(* ProfileBuilder                                                          *)

\* Values handed to ProfileBuilder::field<T: Serialize>: a &str, an i32, and
\* a value whose Serialize implementation reports an error.
RStr(s) == [ty |-> "str", s |-> s]
RInt(n) == [ty |-> "i32", n |-> n]
RUnserializable == [ty |-> "unserializable"]

\* serde_json::to_value: Ok(value) is Some, Err is None.
ToValue(x) ==
    CASE x.ty = "str" -> Some(JStr(x.s))
      [] x.ty = "i32" -> Some(JNum(x.n))
      [] x.ty = "unserializable" -> None

\* ProfileBuilder::name: the data after the call.
BuilderName(data, n) == MapInsert(data, "name", JStr(n))

\* ProfileBuilder::email: the data after the call.
BuilderEmail(data, e) == MapInsert(data, "email", JStr(e))

\* Faulty variant of BuilderField: a key that is present keeps its value.
BuilderFieldKeepsFirst(data, key, value) ==
    IF ToValue(value).some /\ key \notin DOMAIN data
    THEN MapInsert(data, key, ToValue(value).v)
    ELSE data

\* ProfileBuilder::field: the data after the call; a value that does not
\* serialize leaves the data as it was.
BuilderField(data, key, value) ==
    IF ToValue(value).some THEN MapInsert(data, key, ToValue(value).v) ELSE data

\* One call of the chain applied to the data.
BuilderApply(data, c) ==
    CASE c.m = "name" -> BuilderName(data, c.arg.s)
      [] c.m = "email" -> BuilderEmail(data, c.arg.s)
      [] c.m = "field" -> BuilderField(data, c.key, c.arg)

NameArgs == {<<"John Doe">>, <<"Jane">>}
EmailArgs == {<<"john@example.com">>}
FieldKeys == {"name", "bio"}
FieldArgs == {RStr(<<"Software developer">>), RInt(30), RUnserializable}

\* ProfileBuilder::name
name(n) ==
    /\ ~built.some
    /\ Len(chain) < MaxChain
    /\ builder' = BuilderName(builder, n)
    /\ chain' = Append(chain, [m |-> "name", key |-> "name", arg |-> RStr(n)])
    /\ UNCHANGED <<url_arg, client, now, calls, built>>

\* ProfileBuilder::email
email(e) ==
    /\ ~built.some
    /\ Len(chain) < MaxChain
    /\ builder' = BuilderEmail(builder, e)
    /\ chain' = Append(chain, [m |-> "email", key |-> "email", arg |-> RStr(e)])
    /\ UNCHANGED <<url_arg, client, now, calls, built>>

\* ProfileBuilder::field
field(key, value) ==
    /\ ~built.some
    /\ Len(chain) < MaxChain
    /\ builder' = BuilderField(builder, key, value)
    /\ chain' = Append(chain, [m |-> "field", key |-> key, arg |-> value])
    /\ UNCHANGED <<url_arg, client, now, calls, built>>

\* ProfileBuilder::build: the builder is consumed and its data returned.
build ==
    /\ ~built.some
    /\ built' = Some(builder)
    /\ UNCHANGED <<url_arg, client, now, calls, builder, chain>>

---------------------------------------------------------------------------
(* Results and ProfError                                                   *)

Ok(x) == [ok |-> TRUE, v |-> x]
Err(e) == [ok |-> FALSE, e |-> e]

\* ProfError::Http: a reqwest::Error, with what failed (the send, the read
\* of the body, or the decoding of the body by Response::json).
Http(cause) == [variant |-> "Http", cause |-> cause]
Service(msg) == [variant |-> "Service", msg |-> msg]
Auth(msg) == [variant |-> "Auth", msg |-> msg]
NotFound(msg) == [variant |-> "NotFound", msg |-> msg]
Validation(errors) == [variant |-> "Validation", errors |-> errors]

---------------------------------------------------------------------------
(* The signer (the sessionless crate) and the auth parameters              *)

Signers == {"k1", "k2"}

\* sessionless.public_key().to_hex()
PublicKeyHex(signer) == <<"pub:", signer>>

\* sessionless.sign(message).to_hex(): fixed by the key and the message.
SignHex(signer, message) == <<"sig:", signer, ":">> \o message

\* Uuid::new_v4(): any of the values the generator can return; it keeps no
\* record of the values it returned before.
Nonces == {"n1", "n2"}

\* Uuid::to_string
UuidToString(u) == <<u>>

AuthKeys == {"uuid", "timestamp", "hash", "signature"}

\* Faulty variant of get_auth_params: a missing signer is not reported.
AuthParamsWithoutSignerCheck(c, t, nonce) ==
    LET signer == IF c.sessionless.some THEN c.sessionless.v ELSE "k1"
        timestamp == ToDecimal(t)
    IN  Ok([uuid |-> PublicKeyHex(signer),
            timestamp |-> timestamp,
            hash |-> UuidToString(nonce),
            signature |-> SignHex(signer, timestamp)])

\* Faulty variant of get_auth_params: the hash is made from the clock.
AuthParamsHashFromTimestamp(c, t, nonce) ==
    IF ~c.sessionless.some
    THEN Err(Auth(<<"Sessionless not configured">>))
    ELSE LET timestamp == ToDecimal(t)
         IN  Ok([uuid |-> PublicKeyHex(c.sessionless.v),
                 timestamp |-> timestamp,
                 hash |-> timestamp,
                 signature |-> SignHex(c.sessionless.v, timestamp)])

\* ProfClient::get_auth_params, at clock value t with new_v4 returning nonce.
get_auth_params(c, t, nonce) ==
    IF ~c.sessionless.some
    THEN Err(Auth(<<"Sessionless not configured">>))
    ELSE LET timestamp == ToDecimal(t)
             hash == UuidToString(nonce)
             uuid == PublicKeyHex(c.sessionless.v)
             signature == SignHex(c.sessionless.v, timestamp)
             p0 == EmptyMap
             p1 == MapInsert(p0, "uuid", uuid)
             p2 == MapInsert(p1, "timestamp", timestamp)
             p3 == MapInsert(p2, "hash", hash)
             p4 == MapInsert(p3, "signature", signature)
         IN  Ok(p4)

---------------------------------------------------------------------------
(* Requests                                                                *)

\* str::to_lowercase.  A string is read one character per fragment.  The
\* tables are the lower-case mapping, the Cased property and the
\* Case_Ignorable property of the standard library, over the characters a
\* TLA+ string can hold (ASCII but the backquote, U+0080 to U+00FF, and the
\* characters up to U+FFFF whose code ends in 0x80 to 0xFF); a string with
\* other characters is outside the model.  Where the lower case of such a
\* character is one a TLA+ string cannot hold, the table names it by its
\* code point: "U+0253" is the one character U+0253.
\* The characters that char::to_lowercase changes, and what it gives.
UpperAlpha ==
    <<"A", "B", "C", "D", "E", "F", "G", "H", "I", "J", "K", "L", "M", "N",
      "O", "P", "Q", "R", "S", "T", "U", "V", "W", "X", "Y", "Z", "À", "Á",
      "Â", "Ã", "Ä", "Å", "Æ", "Ç", "È", "É", "Ê", "Ë", "Ì", "Í", "Î", "Ï",
      "Ð", "Ñ", "Ò", "Ó", "Ô", "Õ", "Ö", "Ø", "Ù", "Ú", "Û", "Ü", "Ý", "Þ",
      "Ɓ", "Ƃ", "Ƅ", "Ɔ", "Ƈ", "Ɖ", "Ɗ", "Ƌ", "Ǝ", "Ə", "Ɛ", "Ƒ", "Ɠ", "Ɣ",
      "Ɩ", "Ɨ", "Ƙ", "Ɯ", "Ɲ", "Ɵ", "Ơ", "Ƣ", "Ƥ", "Ʀ", "Ƨ", "Ʃ", "Ƭ", "Ʈ",
      "Ư", "Ʊ", "Ʋ", "Ƴ", "Ƶ", "Ʒ", "Ƹ", "Ƽ", "Ǆ", "ǅ", "Ǉ", "ǈ", "Ǌ", "ǋ",
      "Ǎ", "Ǐ", "Ǒ", "Ǔ", "Ǖ", "Ǘ", "Ǚ", "Ǜ", "Ǟ", "Ǡ", "Ǣ", "Ǥ", "Ǧ", "Ǩ",
      "Ǫ", "Ǭ", "Ǯ", "Ǳ", "ǲ", "Ǵ", "Ƕ", "Ƿ", "Ǹ", "Ǻ", "Ǽ", "Ǿ", "Ά", "Έ",
      "Ή", "Ί", "Ό", "Ύ", "Ώ", "Α", "Β", "Γ", "Δ", "Ε", "Ζ", "Η", "Θ", "Ι",
      "Κ", "Λ", "Μ", "Ν", "Ξ", "Ο", "Π", "Ρ", "Σ", "Τ", "Υ", "Φ", "Χ", "Ψ",
      "Ω", "Ϊ", "Ϋ", "Ϗ", "Ϙ", "Ϛ", "Ϝ", "Ϟ", "Ϡ", "Ϣ", "Ϥ", "Ϧ", "Ϩ", "Ϫ",
      "Ϭ", "Ϯ", "ϴ", "Ϸ", "Ϲ", "Ϻ", "Ͻ", "Ͼ", "Ͽ", "Ҁ", "Ҋ", "Ҍ", "Ҏ", "Ґ",
      "Ғ", "Ҕ", "Җ", "Ҙ", "Қ", "Ҝ", "Ҟ", "Ҡ", "Ң", "Ҥ", "Ҧ", "Ҩ", "Ҫ", "Ҭ",
      "Ү", "Ұ", "Ҳ", "Ҵ", "Ҷ", "Ҹ", "Һ", "Ҽ", "Ҿ", "Ӏ", "Ӂ", "Ӄ", "Ӆ", "Ӈ",
      "Ӊ", "Ӌ", "Ӎ", "Ӑ", "Ӓ", "Ӕ", "Ӗ", "Ә", "Ӛ", "Ӝ", "Ӟ", "Ӡ", "Ӣ", "Ӥ",
      "Ӧ", "Ө", "Ӫ", "Ӭ", "Ӯ", "Ӱ", "Ӳ", "Ӵ", "Ӷ", "Ӹ", "Ӻ", "Ӽ", "Ӿ", "Ⴀ",
      "Ⴁ", "Ⴂ", "Ⴃ", "Ⴄ", "Ⴅ", "Ⴆ", "Ⴇ", "Ⴈ", "Ⴉ", "Ⴊ", "Ⴋ", "Ⴌ", "Ⴍ", "Ⴎ",
      "Ⴏ", "Ⴐ", "Ⴑ", "Ⴒ", "Ⴓ", "Ⴔ", "Ⴕ", "Ⴖ", "Ⴗ", "Ⴘ", "Ⴙ", "Ⴚ", "Ⴛ", "Ⴜ",
      "Ⴝ", "Ⴞ", "Ⴟ", "Ⴠ", "Ⴡ", "Ⴢ", "Ⴣ", "Ⴤ", "Ⴥ", "Ⴧ", "Ⴭ", "Ꭰ", "Ꭱ", "Ꭲ",
      "Ꭳ", "Ꭴ", "Ꭵ", "Ꭶ", "Ꭷ", "Ꭸ", "Ꭹ", "Ꭺ", "Ꭻ", "Ꭼ", "Ꭽ", "Ꭾ", "Ꭿ", "Ꮀ",
      "Ꮁ", "Ꮂ", "Ꮃ", "Ꮄ", "Ꮅ", "Ꮆ", "Ꮇ", "Ꮈ", "Ꮉ", "Ꮊ", "Ꮋ", "Ꮌ", "Ꮍ", "Ꮎ",
      "Ꮏ", "Ꮐ", "Ꮑ", "Ꮒ", "Ꮓ", "Ꮔ", "Ꮕ", "Ꮖ", "Ꮗ", "Ꮘ", "Ꮙ", "Ꮚ", "Ꮛ", "Ꮜ",
      "Ꮝ", "Ꮞ", "Ꮟ", "Ꮠ", "Ꮡ", "Ꮢ", "Ꮣ", "Ꮤ", "Ꮥ", "Ꮦ", "Ꮧ", "Ꮨ", "Ꮩ", "Ꮪ",
      "Ꮫ", "Ꮬ", "Ꮭ", "Ꮮ", "Ꮯ", "Ꮰ", "Ꮱ", "Ꮲ", "Ꮳ", "Ꮴ", "Ꮵ", "Ꮶ", "Ꮷ", "Ꮸ",
      "Ꮹ", "Ꮺ", "Ꮻ", "Ꮼ", "Ꮽ", "Ꮾ", "Ꮿ", "Ᏸ", "Ᏹ", "Ᏺ", "Ᏻ", "Ᏼ", "Ᏽ", "Ᲊ",
      "Ა", "Ბ", "Გ", "Დ", "Ე", "Ვ", "Ზ", "Თ", "Ი", "Კ", "Ლ", "Მ", "Ნ", "Ო",
      "Პ", "Ჟ", "Რ", "Ს", "Ტ", "Უ", "Ფ", "Ქ", "Ღ", "Ყ", "Შ", "Ჩ", "Ც", "Ძ",
      "Წ", "Ჭ", "Ხ", "Ჯ", "Ჰ", "Ჱ", "Ჲ", "Ჳ", "Ჴ", "Ჵ", "Ჶ", "Ჷ", "Ჸ", "Ჹ",
      "Ჺ", "Ჽ", "Ჾ", "Ჿ", "Ẁ", "Ẃ", "Ẅ", "Ẇ", "Ẉ", "Ẋ", "Ẍ", "Ẏ", "Ẑ", "Ẓ",
      "Ẕ", "ẞ", "Ạ", "Ả", "Ấ", "Ầ", "Ẩ", "Ẫ", "Ậ", "Ắ", "Ằ", "Ẳ", "Ẵ", "Ặ",
      "Ẹ", "Ẻ", "Ẽ", "Ế", "Ề", "Ể", "Ễ", "Ệ", "Ỉ", "Ị", "Ọ", "Ỏ", "Ố", "Ồ",
      "Ổ", "Ỗ", "Ộ", "Ớ", "Ờ", "Ở", "Ỡ", "Ợ", "Ụ", "Ủ", "Ứ", "Ừ", "Ử", "Ữ",
      "Ự", "Ỳ", "Ỵ", "Ỷ", "Ỹ", "Ỻ", "Ỽ", "Ỿ", "ᾈ", "ᾉ", "ᾊ", "ᾋ", "ᾌ", "ᾍ",
      "ᾎ", "ᾏ", "ᾘ", "ᾙ", "ᾚ", "ᾛ", "ᾜ", "ᾝ", "ᾞ", "ᾟ", "ᾨ", "ᾩ", "ᾪ", "ᾫ",
      "ᾬ", "ᾭ", "ᾮ", "ᾯ", "Ᾰ", "Ᾱ", "Ὰ", "Ά", "ᾼ", "Ὲ", "Έ", "Ὴ", "Ή", "ῌ",
      "Ῐ", "Ῑ", "Ὶ", "Ί", "Ῠ", "Ῡ", "Ὺ", "Ύ", "Ῥ", "Ὸ", "Ό", "Ὼ", "Ώ", "ῼ",
      "Ↄ", "Ⓐ", "Ⓑ", "Ⓒ", "Ⓓ", "Ⓔ", "Ⓕ", "Ⓖ", "Ⓗ", "Ⓘ", "Ⓙ", "Ⓚ", "Ⓛ", "Ⓜ",
      "Ⓝ", "Ⓞ", "Ⓟ", "Ⓠ", "Ⓡ", "Ⓢ", "Ⓣ", "Ⓤ", "Ⓥ", "Ⓦ", "Ⓧ", "Ⓨ", "Ⓩ", "Ⲁ",
      "Ⲃ", "Ⲅ", "Ⲇ", "Ⲉ", "Ⲋ", "Ⲍ", "Ⲏ", "Ⲑ", "Ⲓ", "Ⲕ", "Ⲗ", "Ⲙ", "Ⲛ", "Ⲝ",
      "Ⲟ", "Ⲡ", "Ⲣ", "Ⲥ", "Ⲧ", "Ⲩ", "Ⲫ", "Ⲭ", "Ⲯ", "Ⲱ", "Ⲳ", "Ⲵ", "Ⲷ", "Ⲹ",
      "Ⲻ", "Ⲽ", "Ⲿ", "Ⳁ", "Ⳃ", "Ⳅ", "Ⳇ", "Ⳉ", "Ⳋ", "Ⳍ", "Ⳏ", "Ⳑ", "Ⳓ", "Ⳕ",
      "Ⳗ", "Ⳙ", "Ⳛ", "Ⳝ", "Ⳟ", "Ⳡ", "Ⳣ", "Ⳬ", "Ⳮ", "Ⳳ", "Ꚁ", "Ꚃ", "Ꚅ", "Ꚇ",
      "Ꚉ", "Ꚋ", "Ꚍ", "Ꚏ", "Ꚑ", "Ꚓ", "Ꚕ", "Ꚗ", "Ꚙ", "Ꚛ", "Ꞁ", "Ꞃ", "Ꞅ", "Ꞇ",
      "Ꞌ", "Ɥ", "Ꞑ", "Ꞓ", "Ꞗ", "Ꞙ", "Ꞛ", "Ꞝ", "Ꞟ", "Ꞡ", "Ꞣ", "Ꞥ", "Ꞧ", "Ꞩ",
      "Ɦ", "Ɜ", "Ɡ", "Ɬ", "Ɪ", "Ʞ", "Ʇ", "Ʝ", "Ꭓ", "Ꞵ", "Ꞷ", "Ꞹ", "Ꞻ", "Ꞽ",
      "Ꞿ", "Ꟁ", "Ꟃ", "Ꞔ", "Ʂ", "Ᶎ", "Ꟈ", "Ꟊ", "Ɤ", "Ꟍ", "꟎", "Ꟑ", "꟒", "꟔",
      "Ꟗ", "Ꟙ", "Ꟛ", "Ƛ", "Ꟶ">>
LowerAlpha ==
    <<"a", "b", "c", "d", "e", "f", "g", "h", "i", "j", "k", "l", "m", "n",
      "o", "p", "q", "r", "s", "t", "u", "v", "w", "x", "y", "z", "à", "á",
      "â", "ã", "ä", "å", "æ", "ç", "è", "é", "ê", "ë", "ì", "í", "î", "ï",
      "ð", "ñ", "ò", "ó", "ô", "õ", "ö", "ø", "ù", "ú", "û", "ü", "ý", "þ",
      "U+0253", "ƃ", "ƅ", "U+0254", "ƈ", "U+0256", "U+0257", "ƌ", "ǝ",
      "U+0259", "U+025B", "ƒ", "U+0260", "U+0263", "U+0269", "U+0268", "ƙ",
      "U+026F", "U+0272", "U+0275", "ơ", "ƣ", "ƥ", "ʀ", "ƨ", "ʃ", "ƭ", "ʈ",
      "ư", "ʊ", "ʋ", "ƴ", "ƶ", "ʒ", "ƹ", "ƽ", "ǆ", "ǆ", "ǉ", "ǉ", "ǌ", "ǌ",
      "ǎ", "ǐ", "ǒ", "ǔ", "ǖ", "ǘ", "ǚ", "ǜ", "ǟ", "ǡ", "ǣ", "ǥ", "ǧ", "ǩ",
      "ǫ", "ǭ", "ǯ", "ǳ", "ǳ", "ǵ", "ƕ", "ƿ", "ǹ", "ǻ", "ǽ", "ǿ", "ά", "έ",
      "ή", "ί", "ό", "ύ", "ώ", "α", "β", "γ", "δ", "ε", "ζ", "η", "θ", "ι",
      "κ", "λ", "μ", "ν", "ξ", "ο", "π", "ρ", "σ", "τ", "υ", "φ", "χ", "ψ",
      "ω", "ϊ", "ϋ", "ϗ", "ϙ", "ϛ", "ϝ", "ϟ", "ϡ", "ϣ", "ϥ", "ϧ", "ϩ", "ϫ",
      "ϭ", "ϯ", "θ", "ϸ", "ϲ", "ϻ", "U+037B", "U+037C", "U+037D", "ҁ", "ҋ",
      "ҍ", "ҏ", "ґ", "ғ", "ҕ", "җ", "ҙ", "қ", "ҝ", "ҟ", "ҡ", "ң", "ҥ", "ҧ",
      "ҩ", "ҫ", "ҭ", "ү", "ұ", "ҳ", "ҵ", "ҷ", "ҹ", "һ", "ҽ", "ҿ", "ӏ", "ӂ",
      "ӄ", "ӆ", "ӈ", "ӊ", "ӌ", "ӎ", "ӑ", "ӓ", "ӕ", "ӗ", "ә", "ӛ", "ӝ", "ӟ",
      "ӡ", "ӣ", "ӥ", "ӧ", "ө", "ӫ", "ӭ", "ӯ", "ӱ", "ӳ", "ӵ", "ӷ", "ӹ", "ӻ",
      "ӽ", "ӿ", "U+2D00", "U+2D01", "U+2D02", "U+2D03", "U+2D04", "U+2D05",
      "U+2D06", "U+2D07", "U+2D08", "U+2D09", "U+2D0A", "U+2D0B", "U+2D0C",
      "U+2D0D", "U+2D0E", "U+2D0F", "U+2D10", "U+2D11", "U+2D12", "U+2D13",
      "U+2D14", "U+2D15", "U+2D16", "U+2D17", "U+2D18", "U+2D19", "U+2D1A",
      "U+2D1B", "U+2D1C", "U+2D1D", "U+2D1E", "U+2D1F", "U+2D20", "U+2D21",
      "U+2D22", "U+2D23", "U+2D24", "U+2D25", "U+2D27", "U+2D2D", "U+AB70",
      "U+AB71", "U+AB72", "U+AB73", "U+AB74", "U+AB75", "U+AB76", "U+AB77",
      "U+AB78", "U+AB79", "U+AB7A", "U+AB7B", "U+AB7C", "U+AB7D", "U+AB7E",
      "U+AB7F", "ꮀ", "ꮁ", "ꮂ", "ꮃ", "ꮄ", "ꮅ", "ꮆ", "ꮇ", "ꮈ", "ꮉ", "ꮊ", "ꮋ",
      "ꮌ", "ꮍ", "ꮎ", "ꮏ", "ꮐ", "ꮑ", "ꮒ", "ꮓ", "ꮔ", "ꮕ", "ꮖ", "ꮗ", "ꮘ", "ꮙ",
      "ꮚ", "ꮛ", "ꮜ", "ꮝ", "ꮞ", "ꮟ", "ꮠ", "ꮡ", "ꮢ", "ꮣ", "ꮤ", "ꮥ", "ꮦ", "ꮧ",
      "ꮨ", "ꮩ", "ꮪ", "ꮫ", "ꮬ", "ꮭ", "ꮮ", "ꮯ", "ꮰ", "ꮱ", "ꮲ", "ꮳ", "ꮴ", "ꮵ",
      "ꮶ", "ꮷ", "ꮸ", "ꮹ", "ꮺ", "ꮻ", "ꮼ", "ꮽ", "ꮾ", "ꮿ", "ᏸ", "ᏹ", "ᏺ", "ᏻ",
      "ᏼ", "ᏽ", "ᲊ", "ა", "ბ", "გ", "დ", "ე", "ვ", "ზ", "თ", "ი", "კ", "ლ",
      "მ", "ნ", "ო", "პ", "ჟ", "რ", "ს", "ტ", "უ", "ფ", "ქ", "ღ", "ყ", "შ",
      "ჩ", "ც", "ძ", "წ", "ჭ", "ხ", "ჯ", "ჰ", "ჱ", "ჲ", "ჳ", "ჴ", "ჵ", "ჶ",
      "ჷ", "ჸ", "ჹ", "ჺ", "ჽ", "ჾ", "ჿ", "ẁ", "ẃ", "ẅ", "ẇ", "ẉ", "ẋ", "ẍ",
      "ẏ", "ẑ", "ẓ", "ẕ", "ß", "ạ", "ả", "ấ", "ầ", "ẩ", "ẫ", "ậ", "ắ", "ằ",
      "ẳ", "ẵ", "ặ", "ẹ", "ẻ", "ẽ", "ế", "ề", "ể", "ễ", "ệ", "ỉ", "ị", "ọ",
      "ỏ", "ố", "ồ", "ổ", "ỗ", "ộ", "ớ", "ờ", "ở", "ỡ", "ợ", "ụ", "ủ", "ứ",
      "ừ", "ử", "ữ", "ự", "ỳ", "ỵ", "ỷ", "ỹ", "ỻ", "ỽ", "ỿ", "ᾀ", "ᾁ", "ᾂ",
      "ᾃ", "ᾄ", "ᾅ", "ᾆ", "ᾇ", "ᾐ", "ᾑ", "ᾒ", "ᾓ", "ᾔ", "ᾕ", "ᾖ", "ᾗ", "ᾠ",
      "ᾡ", "ᾢ", "ᾣ", "ᾤ", "ᾥ", "ᾦ", "ᾧ", "ᾰ", "ᾱ", "U+1F70", "U+1F71", "ᾳ",
      "U+1F72", "U+1F73", "U+1F74", "U+1F75", "ῃ", "ῐ", "ῑ", "U+1F76",
      "U+1F77", "ῠ", "ῡ", "U+1F7A", "U+1F7B", "ῥ", "U+1F78", "U+1F79",
      "U+1F7C", "U+1F7D", "ῳ", "ↄ", "ⓐ", "ⓑ", "ⓒ", "ⓓ", "ⓔ", "ⓕ", "ⓖ", "ⓗ",
      "ⓘ", "ⓙ", "ⓚ", "ⓛ", "ⓜ", "ⓝ", "ⓞ", "ⓟ", "ⓠ", "ⓡ", "ⓢ", "ⓣ", "ⓤ", "ⓥ",
      "ⓦ", "ⓧ", "ⓨ", "ⓩ", "ⲁ", "ⲃ", "ⲅ", "ⲇ", "ⲉ", "ⲋ", "ⲍ", "ⲏ", "ⲑ", "ⲓ",
      "ⲕ", "ⲗ", "ⲙ", "ⲛ", "ⲝ", "ⲟ", "ⲡ", "ⲣ", "ⲥ", "ⲧ", "ⲩ", "ⲫ", "ⲭ", "ⲯ",
      "ⲱ", "ⲳ", "ⲵ", "ⲷ", "ⲹ", "ⲻ", "ⲽ", "ⲿ", "ⳁ", "ⳃ", "ⳅ", "ⳇ", "ⳉ", "ⳋ",
      "ⳍ", "ⳏ", "ⳑ", "ⳓ", "ⳕ", "ⳗ", "ⳙ", "ⳛ", "ⳝ", "ⳟ", "ⳡ", "ⳣ", "ⳬ", "ⳮ",
      "ⳳ", "ꚁ", "ꚃ", "ꚅ", "ꚇ", "ꚉ", "ꚋ", "ꚍ", "ꚏ", "ꚑ", "ꚓ", "ꚕ", "ꚗ", "ꚙ",
      "ꚛ", "ꞁ", "ꞃ", "ꞅ", "ꞇ", "ꞌ", "U+0265", "ꞑ", "ꞓ", "ꞗ", "ꞙ", "ꞛ", "ꞝ",
      "ꞟ", "ꞡ", "ꞣ", "ꞥ", "ꞧ", "ꞩ", "U+0266", "U+025C", "U+0261", "U+026C",
      "U+026A", "ʞ", "ʇ", "ʝ", "U+AB53", "ꞵ", "ꞷ", "ꞹ", "ꞻ", "ꞽ", "ꞿ", "ꟁ",
      "ꟃ", "ꞔ", "ʂ", "ᶎ", "ꟈ", "ꟊ", "U+0264", "ꟍ", "꟏", "ꟑ", "ꟓ", "ꟕ", "ꟗ",
      "ꟙ", "ꟛ", "ƛ", "ꟶ">>

UpperSet == {UpperAlpha[i] : i \in 1..Len(UpperAlpha)}
LowerOf ==
    [c \in UpperSet |->
        LowerAlpha[CHOOSE i \in 1..Len(UpperAlpha) : UpperAlpha[i] = c]]

\* conversions::to_lower
CharToLower(c) == IF c \in UpperSet THEN LowerOf[c] ELSE c

\* The Cased characters: those of the two tables, and the others.
OtherCased ==
    {"ª", "µ", "º", "ÿ", "ƀ", "ƍ", "ƚ", "ƞ", "ƪ", "ƫ", "ƺ", "ƾ", "ǰ", "ʁ",
     "ʄ", "ʅ", "ʆ", "ʉ", "ʌ", "ʍ", "ʎ", "ʏ", "ʐ", "ʑ", "ʓ", "ʖ", "ʗ", "ʘ",
     "ʙ", "ʚ", "ʛ", "ʜ", "ʟ", "ʠ", "ʡ", "ʢ", "ʣ", "ʤ", "ʥ", "ʦ", "ʧ", "ʨ",
     "ʩ", "ʪ", "ʫ", "ʬ", "ʭ", "ʮ", "ʯ", "ʰ", "ʱ", "ʲ", "ʳ", "ʴ", "ʵ", "ʶ",
     "ʷ", "ʸ", "ˀ", "ˁ", "ˠ", "ˡ", "ˢ", "ˣ", "ˤ", "ΐ", "ΰ", "ς", "ϐ", "ϑ",
     "ϒ", "ϓ", "ϔ", "ϕ", "ϖ", "ϰ", "ϱ", "ϳ", "ϵ", "ϼ", "ր", "ց", "ւ", "փ",
     "ք", "օ", "ֆ", "և", "ֈ", "ᲀ", "ᲁ", "ᲂ", "ᲃ", "ᲄ", "ᲅ", "ᲆ", "ᲇ", "ᲈ",
     "ᶀ", "ᶁ", "ᶂ", "ᶃ", "ᶄ", "ᶅ", "ᶆ", "ᶇ", "ᶈ", "ᶉ", "ᶊ", "ᶋ", "ᶌ", "ᶍ",
     "ᶏ", "ᶐ", "ᶑ", "ᶒ", "ᶓ", "ᶔ", "ᶕ", "ᶖ", "ᶗ", "ᶘ", "ᶙ", "ᶚ", "ᶛ", "ᶜ",
     "ᶝ", "ᶞ", "ᶟ", "ᶠ", "ᶡ", "ᶢ", "ᶣ", "ᶤ", "ᶥ", "ᶦ", "ᶧ", "ᶨ", "ᶩ", "ᶪ",
     "ᶫ", "ᶬ", "ᶭ", "ᶮ", "ᶯ", "ᶰ", "ᶱ", "ᶲ", "ᶳ", "ᶴ", "ᶵ", "ᶶ", "ᶷ", "ᶸ",
     "ᶹ", "ᶺ", "ᶻ", "ᶼ", "ᶽ", "ᶾ", "ᶿ", "ẖ", "ẗ", "ẘ", "ẙ", "ẚ", "ẛ", "ẜ",
     "ẝ", "ẟ", "ᾲ", "ᾴ", "ᾶ", "ᾷ", "ι", "ῂ", "ῄ", "ῆ", "ῇ", "ῒ", "ΐ", "ῖ",
     "ῗ", "ῢ", "ΰ", "ῤ", "ῦ", "ῧ", "ῲ", "ῴ", "ῶ", "ῷ", "ₐ", "ₑ", "ₒ", "ₓ",
     "ₔ", "ₕ", "ₖ", "ₗ", "ₘ", "ₙ", "ₚ", "ₛ", "ₜ", "ⳤ", "ꚜ", "ꚝ", "ꞎ", "ꞕ",
     "ꞯ", "꟱", "ꟲ", "ꟳ", "ꟴ", "ꟸ", "ꟹ",
     "ꟺ", "ჼ"}

Cased == UpperSet \cup {LowerAlpha[i] : i \in 1..Len(LowerAlpha)} \cup OtherCased

\* The Case_Ignorable characters.
CaseIgnorable ==
    {"'", ".", ":", "^", "¨", "­", "¯", "´", "·", "¸", "ʰ", "ʱ", "ʲ", "ʳ",
     "ʴ", "ʵ", "ʶ", "ʷ", "ʸ", "ʹ", "ʺ", "ʻ", "ʼ", "ʽ", "ʾ", "ʿ", "ˀ", "ˁ",
     "˂", "˃", "˄", "˅", "ˆ", "ˇ", "ˈ", "ˉ", "ˊ", "ˋ", "ˌ", "ˍ", "ˎ", "ˏ",
     "ː", "ˑ", "˒", "˓", "˔", "˕", "˖", "˗", "˘", "˙", "˚", "˛", "˜", "˝",
     "˞", "˟", "ˠ", "ˡ", "ˢ", "ˣ", "ˤ", "˥", "˦", "˧", "˨", "˩", "˪", "˫",
     "ˬ", "˭", "ˮ", "˯", "˰", "˱", "˲", "˳", "˴", "˵", "˶", "˷", "˸", "˹",
     "˺", "˻", "˼", "˽", "˾", "˿", "΄", "΅", "·", "҃", "҄", "҅", "҆", "҇",
     "҈", "҉", "֑", "֒", "֓", "֔", "֕", "֖", "֗", "֘", "֙", "֚", "֛", "֜",
     "֝", "֞", "֟", "֠", "֡", "֢", "֣", "֤", "֥", "֦", "֧", "֨", "֩", "֪",
     "֫", "֬", "֭", "֮", "֯", "ְ", "ֱ", "ֲ", "ֳ", "ִ", "ֵ", "ֶ", "ַ", "ָ",
     "ֹ", "ֺ", "ֻ", "ּ", "ֽ", "ֿ", "ׁ", "ׂ", "ׄ", "ׅ", "ׇ", "״", "ۖ", "ۗ",
     "ۘ", "ۙ", "ۚ", "ۛ", "ۜ", "۝", "۟", "۠", "ۡ", "ۢ", "ۣ", "ۤ", "ۥ", "ۦ",
     "ۧ", "ۨ", "۪", "۫", "۬", "ۭ", "ަ", "ާ", "ި", "ީ", "ު", "ޫ", "ެ", "ޭ",
     "ޮ", "ޯ", "ް", "߫", "߬", "߭", "߮", "߯", "߰", "߱", "߲", "߳", "ߴ", "ߵ",
     "ߺ", "߽", "࢈", "࢐", "࢑", "ࢗ", "࢘", "࢙", "࢚", "࢛", "࢜", "࢝", "࢞", "࢟",
     "ࣉ", "࣊", "࣋", "࣌", "࣍", "࣎", "࣏", "࣐", "࣑", "࣒", "࣓", "ࣔ", "ࣕ", "ࣖ",
     "ࣗ", "ࣘ", "ࣙ", "ࣚ", "ࣛ", "ࣜ", "ࣝ", "ࣞ", "ࣟ", "࣠", "࣡", "࣢", "ࣣ", "ࣤ",
     "ࣥ", "ࣦ", "ࣧ", "ࣨ", "ࣩ", "࣪", "࣫", "࣬", "࣭", "࣮", "࣯", "ࣰ", "ࣱ", "ࣲ",
     "ࣳ", "ࣴ", "ࣵ", "ࣶ", "ࣷ", "ࣸ", "ࣹ", "ࣺ", "ࣻ", "ࣼ", "ࣽ", "ࣾ", "ࣿ", "ঁ",
     "়", "ু", "ূ", "ৃ", "ৄ", "্", "ৢ", "ৣ", "৾", "ઁ", "ં", "઼", "ુ", "ૂ",
     "ૃ", "ૄ", "ૅ", "ે", "ૈ", "્", "ૢ", "ૣ", "ૺ", "ૻ", "ૼ", "૽", "૾", "૿",
     "ஂ", "ீ", "்", "ಁ", "಼", "ಿ", "ೆ", "ೌ", "್", "ೢ", "ೣ", "ඁ", "්", "ි",
     "ී", "ු", "ූ", "ັ", "ິ", "ີ", "ຶ", "ື", "ຸ", "ູ", "຺", "ົ", "ຼ", "ໆ",
     "່", "້", "໊", "໋", "໌", "ໍ", "໎", "ྀ", "ཱྀ", "ྂ", "ྃ", "྄", "྆", "྇",
     "ྍ", "ྎ", "ྏ", "ྐ", "ྑ", "ྒ", "ྒྷ", "ྔ", "ྕ", "ྖ", "ྗ", "ྙ", "ྚ", "ྛ",
     "ྜ", "ྜྷ", "ྞ", "ྟ", "ྠ", "ྡ", "ྡྷ", "ྣ", "ྤ", "ྥ", "ྦ", "ྦྷ", "ྨ", "ྩ",
     "ྪ", "ྫ", "ྫྷ", "ྭ", "ྮ", "ྯ", "ྰ", "ྱ", "ྲ", "ླ", "ྴ", "ྵ", "ྶ", "ྷ",
     "ྸ", "ྐྵ", "ྺ", "ྻ", "ྼ", "࿆", "ႂ", "ႅ", "ႆ", "ႍ", "ႝ", "ჼ", "឴", "឵",
     "ិ", "ី", "ឹ", "ឺ", "ុ", "ូ", "ួ", "ំ", "៉", "៊", "់", "៌", "៍", "៎",
     "៏", "័", "៑", "្", "៓", "ៗ", "៝", "ᢅ", "ᢆ", "ᢩ", "ᪧ", "᪰", "᪱", "᪲",
     "᪳", "᪴", "᪵", "᪶", "᪷", "᪸", "᪹", "᪺", "᪻", "᪼", "᪽", "᪾", "ᪿ", "ᫀ",
     "᫁", "᫂", "᫃", "᫄", "᫅", "᫆", "᫇", "᫈", "᫉", "᫊", "᫋", "ᫌ", "ᫍ", "ᫎ",
     "᫏", "᫐", "᫑", "᫒", "᫓", "᫔", "᫕", "᫖", "᫗", "᫘", "᫙", "᫚", "᫛", "᫜",
     "᫝", "᫠", "᫡", "᫢", "᫣", "᫤", "᫥", "᫦", "᫧", "᫨", "᫩", "᫪", "᫫", "ᮀ",
     "ᮁ", "ᮢ", "ᮣ", "ᮤ", "ᮥ", "ᮨ", "ᮩ", "᮫", "ᮬ", "ᮭ", "᯦", "ᯨ", "ᯩ", "ᯭ",
     "ᯯ", "ᯰ", "ᯱ", "᳐", "᳑", "᳒", "᳔", "᳕", "᳖", "᳗", "᳘", "᳙", "᳚", "᳛",
     "᳜", "᳝", "᳞", "᳟", "᳠", "᳢", "᳣", "᳤", "᳥", "᳦", "᳧", "᳨", "᳭", "᳴",
     "᳸", "᳹", "ᶛ", "ᶜ", "ᶝ", "ᶞ", "ᶟ", "ᶠ", "ᶡ", "ᶢ", "ᶣ", "ᶤ", "ᶥ", "ᶦ",
     "ᶧ", "ᶨ", "ᶩ", "ᶪ", "ᶫ", "ᶬ", "ᶭ", "ᶮ", "ᶯ", "ᶰ", "ᶱ", "ᶲ", "ᶳ", "ᶴ",
     "ᶵ", "ᶶ", "ᶷ", "ᶸ", "ᶹ", "ᶺ", "ᶻ", "ᶼ", "ᶽ", "ᶾ", "ᶿ", "᷀", "᷁", "᷂",
     "᷃", "᷄", "᷅", "᷆", "᷇", "᷈", "᷉", "᷊", "᷋", "᷌", "᷍", "᷎", "᷏", "᷐",
     "᷑", "᷒", "ᷓ", "ᷔ", "ᷕ", "ᷖ", "ᷗ", "ᷘ", "ᷙ", "ᷚ", "ᷛ", "ᷜ", "ᷝ", "ᷞ",
     "ᷟ", "ᷠ", "ᷡ", "ᷢ", "ᷣ", "ᷤ", "ᷥ", "ᷦ", "ᷧ", "ᷨ", "ᷩ", "ᷪ", "ᷫ", "ᷬ",
     "ᷭ", "ᷮ", "ᷯ", "ᷰ", "ᷱ", "ᷲ", "ᷳ", "ᷴ", "᷵", "᷶", "᷷", "᷸", "᷹", "᷺",
     "᷻", "᷼", "᷽", "᷾", "᷿", "᾽", "᾿", "῀", "῁", "῍", "῎", "῏", "῝", "῞",
     "῟", "῭", "΅", "`", "´", "῾", "ₐ", "ₑ", "ₒ", "ₓ", "ₔ", "ₕ", "ₖ", "ₗ",
     "ₘ", "ₙ", "ₚ", "ₛ", "ₜ", "⃐", "⃑", "⃒", "⃓", "⃔", "⃕", "⃖", "⃗", "⃘",
     "⃙", "⃚", "⃛", "⃜", "⃝", "⃞", "⃟", "⃠", "⃡", "⃢", "⃣", "⃤", "⃥", "⃦",
     "⃧", "⃨", "⃩", "⃪", "⃫", "⃬", "⃭", "⃮", "⃯", "⃰", "⳯", "⳰", "⳱", "ⷠ",
     "ⷡ", "ⷢ", "ⷣ", "ⷤ", "ⷥ", "ⷦ", "ⷧ", "ⷨ", "ⷩ", "ⷪ", "ⷫ", "ⷬ", "ⷭ", "ⷮ",
     "ⷯ", "ⷰ", "ⷱ", "ⷲ", "ⷳ", "ⷴ", "ⷵ", "ⷶ", "ⷷ", "ⷸ", "ⷹ", "ⷺ", "ⷻ", "ⷼ",
     "ⷽ", "ⷾ", "ⷿ", "゙", "゚", "゛", "゜", "ゝ", "ゞ", "ー", "ヽ", "ヾ", "ꓸ", "ꓹ",
     "ꓺ", "ꓻ", "ꓼ", "ꓽ", "ꚜ", "ꚝ", "ꚞ", "ꚟ", "꛰", "꛱", "ꞈ", "꞉", "꞊", "꟱",
     "ꟲ", "ꟳ", "ꟴ", "ꟸ", "ꟹ", "꣄", "ꣅ", "꣠", "꣡", "꣢", "꣣", "꣤", "꣥", "꣦",
     "꣧", "꣨", "꣩", "꣪", "꣫", "꣬", "꣭", "꣮", "꣯", "꣰", "꣱", "ꣿ", "ꦀ", "ꦁ",
     "ꦂ", "꦳", "ꦶ", "ꦷ", "ꦸ", "ꦹ", "ꦼ", "ꦽ", "ꧏ", "ꧥ", "ꧦ", "ꪰ", "ꪲ", "ꪳ",
     "ꪴ", "ꪷ", "ꪸ", "ꪾ", "꪿", "꫁", "ꫝ", "ꫬ", "ꫭ", "ꫳ", "ꫴ", "꫶", "ꯥ", "ꯨ",
     "꯭", "﮲", "﮳", "﮴", "﮵", "﮶", "﮷", "﮸", "﮹", "﮺", "﮻", "﮼", "﮽", "﮾",
     "﮿", "﯀", "﯁", "﯂", "﻿", "ﾞ", "ﾟ", "￣", "￹", "￺", "￻"}

\* case_ignorable_then_cased: the first character that is not
\* Case_Ignorable exists and is Cased.
CaseIgnorableThenCased(s) ==
    LET rest == {i \in 1..Len(s) : s[i] \notin CaseIgnorable}
    IN  /\ rest # {}
        /\ s[CHOOSE i \in rest : \A j \in rest : i <= j] \in Cased

\* chars().rev()
Reverse(s) == [i \in 1..Len(s) |-> s[Len(s) + 1 - i]]

\* map_uppercase_sigma: the capital sigma at position i becomes the final
\* sigma at the end of a word, the small sigma elsewhere.
MapUppercaseSigma(s, i) ==
    LET is_word_final ==
            /\ CaseIgnorableThenCased(Reverse(SubSeq(s, 1, i - 1)))
            /\ ~CaseIgnorableThenCased(SubSeq(s, i + 1, Len(s)))
    IN  IF is_word_final THEN "ς" ELSE "σ"

ToLowercase(s) ==
    [i \in 1..Len(s) |->
        IF s[i] = "Σ" THEN MapUppercaseSigma(s, i) ELSE CharToLower(s[i])]

\* filename.split('.').last(): what follows the last '.', or the whole name.
LastSegment(s) ==
    LET dots == {i \in 1..Len(s) : s[i] = "."}
    IN  IF dots = {} THEN s
        ELSE SubSeq(s, (CHOOSE i \in dots : \A j \in dots : j <= i) + 1, Len(s))

\* ProfClient::guess_mime_type
guess_mime_type(filename) ==
    LET extension == ToLowercase(LastSegment(filename))
    IN  CASE extension \in {<<"j", "p", "g">>, <<"j", "p", "e", "g">>} -> <<"image/jpeg">>
          [] extension = <<"p", "n", "g">> -> <<"image/png">>
          [] extension = <<"w", "e", "b", "p">> -> <<"image/webp">>
          [] OTHER -> <<"application/octet-stream">>

\* A URL: the path, and the query parameters joined with '&' after a '?'.
\* The parameters come out of a HashMap in its iteration order, which Rust
\* leaves unspecified; the model keeps the set of "key=value" items.
Url(path, query) == [path |-> path, query |-> query]

\* format!("{}/user/{}/profile", base_url, uuid)
ProfilePath(base_url, uuid) == base_url \o <<"/user/">> \o uuid \o <<"/profile">>

\* format!("{}/user/{}/profile/image", base_url, uuid)
ImagePath(base_url, uuid) == base_url \o <<"/user/">> \o uuid \o <<"/profile/image">>

\* auth.iter().map(|(k, v)| format!("{}={}", k, v))
QueryParams(auth) == {<<k, "=">> \o auth[k] : k \in DOMAIN auth}

\* uuid.unwrap_or_else(|| auth.get("uuid").unwrap())
TargetUuid(uuid, auth) == UnwrapOr(uuid, auth["uuid"])

TextPart(text) == [kind |-> "text", text |-> text]
ImagePart(image) ==
    [kind |-> "bytes", bytes |-> image.bytes, file_name |-> image.filename,
     mime |-> guess_mime_type(image.filename)]

\* serde_json::to_string(&profile_data): the JSON text of the map, its
\* members in the map's iteration order.
ToJsonString(m) == [json_of |-> JObj(m)]

\* The multipart form of create_profile and update_profile, by part name.
\* to_string of a map of JSON values and mime_str of one of the four types
\* of guess_mime_type do not fail, so their `?` never returns.
ProfileForm(profile_data, auth, image_data) ==
    LET names == {"profileData"} \cup (DOMAIN auth)
                 \cup (IF image_data.some THEN {"image"} ELSE {})
    IN  [n \in names |->
            CASE n = "profileData" -> TextPart(ToJsonString(profile_data))
              [] n = "image" -> ImagePart(image_data.v)
              [] OTHER -> TextPart(auth[n])]

\* Faulty variant of SpellBody: the caller's value wins on a collision.
SpellBodyKeepsCallerValue(spell_data, auth) ==
    [k \in (DOMAIN spell_data) \cup (DOMAIN auth) |->
        IF k \in DOMAIN spell_data THEN spell_data[k] ELSE JStr(auth[k])]

\* The JSON body of execute_spell: the auth parameters inserted, as JSON
\* strings, into the caller's spell data.  The loop runs in the map's
\* iteration order; the four keys differ, so every order gives this map.
SpellBody(spell_data, auth) ==
    LET r1 == MapInsert(spell_data, "uuid", JStr(auth["uuid"]))
        r2 == MapInsert(r1, "timestamp", JStr(auth["timestamp"]))
        r3 == MapInsert(r2, "hash", JStr(auth["hash"]))
        r4 == MapInsert(r3, "signature", JStr(auth["signature"]))
    IN  r4

Request(method, url, body) == [method |-> method, url |-> url, body |-> body]
NoBody == [kind |-> "none"]
MultipartBody(form) == [kind |-> "multipart", form |-> form]
JsonBody(v) == [kind |-> "json", v |-> v]

---------------------------------------------------------------------------
(* Deserialization of response bodies (serde derive on the structs)        *)

\* An Option<String> member: absent or null is None, a string is Some; any
\* other value is an error (Err(...) of serde, here ok = FALSE).
DeOptString(m) ==
    IF ~m.some \/ m.v.t = "null" THEN Ok(None)
    ELSE IF m.v.t = "str" THEN Ok(Some(m.v.s))
    ELSE Err("invalid type")

\* An Option<Vec<String>> member: every element must be a string.
DeOptVecString(m) ==
    IF ~m.some \/ m.v.t = "null" THEN Ok(None)
    ELSE IF m.v.t = "arr" /\ \A i \in 1..Len(m.v.a) : m.v.a[i].t = "str"
    THEN Ok(Some([i \in 1..Len(m.v.a) |-> m.v.a[i].s]))
    ELSE Err("invalid type")

\* A bool member: required.
DeBool(m) == IF m.some /\ m.v.t = "bool" THEN Ok(m.v.b) ELSE Err("invalid type")

\* A String member: required.
DeString(m) == IF m.some /\ m.v.t = "str" THEN Ok(m.v.s) ELSE Err("invalid type")

\* A field of a struct written twice in one object is serde's "duplicate
\* field" error; a key that names no field may be repeated.
HasDuplicate(d, fields) == \E k \in fields : Len(MembersNamed(d, k)) > 1

\* The member of a written object that a field is read from.
Member(d, k) ==
    IF MembersNamed(d, k) = <<>> THEN None ELSE Some(MembersNamed(d, k)[1].v)

ProfileKeys == {"uuid", "name", "email", "imageFilename", "createdAt", "updatedAt"}

\* Profile: a JSON object (the flattened additional_fields admit no other
\* form) with the five required strings, no field written twice; every
\* other member is kept in additional_fields, a HashMap of Values, where
\* the last of a repeated key stays.
DeProfile(v) ==
    IF /\ v.t = "members"
       /\ ~HasDuplicate(v, ProfileKeys)
       /\ \A k \in {"uuid", "name", "email", "createdAt", "updatedAt"} :
             DeString(Member(v, k)).ok
       /\ DeOptString(Member(v, "imageFilename")).ok
    THEN Ok([uuid |-> Member(v, "uuid").v.s,
             name |-> Member(v, "name").v.s,
             email |-> Member(v, "email").v.s,
             image_filename |-> DeOptString(Member(v, "imageFilename")).v,
             created_at |-> Member(v, "createdAt").v.s,
             updated_at |-> Member(v, "updatedAt").v.s,
             additional_fields |->
                 [k \in (DOMAIN ValueOf(v).o) \ ProfileKeys |-> ValueOf(v).o[k]]])
    ELSE Err("invalid type")

\* An Option<Profile> member.
DeOptProfile(m) ==
    IF ~m.some \/ m.v.t = "null" THEN Ok(None)
    ELSE IF DeProfile(m.v).ok THEN Ok(Some(DeProfile(m.v).v))
    ELSE Err("invalid type")

\* The members of a struct as serde reads them: by name from an object
\* that writes no field twice, by position from an array of exactly as many
\* elements as the struct has fields; no other JSON value is a struct.
StructMembers(v, fields) ==
    IF v.t = "members"
    THEN IF HasDuplicate(v, {fields[i] : i \in 1..Len(fields)})
         THEN Err("duplicate field")
         ELSE Ok([i \in 1..Len(fields) |-> Member(v, fields[i])])
    ELSE IF v.t = "arr" /\ Len(v.a) = Len(fields)
    THEN Ok([i \in 1..Len(fields) |-> Some(v.a[i])])
    ELSE Err("invalid type")

\* ProfileResponse
DeProfileResponse(v) ==
    LET m == StructMembers(v, <<"success", "profile", "error", "details">>)
    IN  IF /\ m.ok
           /\ DeBool(m.v[1]).ok
           /\ DeOptProfile(m.v[2]).ok
           /\ DeOptString(m.v[3]).ok
           /\ DeOptVecString(m.v[4]).ok
        THEN Ok([success |-> DeBool(m.v[1]).v,
                 profile |-> DeOptProfile(m.v[2]).v,
                 error |-> DeOptString(m.v[3]).v,
                 details |-> DeOptVecString(m.v[4]).v])
        ELSE Err("invalid type")

\* HealthResponse
DeHealthResponse(v) ==
    LET m == StructMembers(v, <<"status", "service", "version", "timestamp">>)
    IN  IF m.ok /\ \A i \in 1..4 : DeString(m.v[i]).ok
        THEN Ok([status |-> DeString(m.v[1]).v,
                 service |-> DeString(m.v[2]).v,
                 version |-> DeString(m.v[3]).v,
                 timestamp |-> DeString(m.v[4]).v])
        ELSE Err("invalid type")

\* MagicResponse: a JSON object (data is flattened) that writes neither
\* success nor error twice; data holds the other members, the last of a
\* repeated key.
DeMagicResponse(v) ==
    IF /\ v.t = "members"
       /\ ~HasDuplicate(v, {"success", "error"})
       /\ DeBool(Member(v, "success")).ok
       /\ DeOptString(Member(v, "error")).ok
    THEN Ok([success |-> DeBool(Member(v, "success")).v,
             error |-> DeOptString(Member(v, "error")).v,
             data |-> [k \in (DOMAIN ValueOf(v).o) \ {"success", "error"} |->
                          ValueOf(v).o[k]]])
    ELSE Err("invalid type")

\* serde_json::from_str::<ProfileResponse>(&response_text), and the same
\* decoding by Response::json: the text must be JSON and what it writes a
\* ProfileResponse.
FromStrProfileResponse(body) ==
    IF body.json.some THEN DeProfileResponse(body.json.v) ELSE Err("syntax")

\* Response::json::<HealthResponse>
FromStrHealthResponse(body) ==
    IF body.json.some THEN DeHealthResponse(body.json.v) ELSE Err("syntax")

\* Response::json::<MagicResponse>
FromStrMagicResponse(body) ==
    IF body.json.some THEN DeMagicResponse(body.json.v) ELSE Err("syntax")

\* serde_json::from_str::<serde_json::Value>(&response_text)
FromStrValue(body) ==
    IF body.json.some THEN Ok(ValueOf(body.json.v)) ELSE Err("syntax")

---------------------------------------------------------------------------
(* Interpretation of responses                                             *)

\* StatusCode::is_success
IsSuccess(status) == 200 <= status /\ status <= 299

\* The fallback of the profile operations: a JSON value with a string
\* "error" member becomes a failed envelope; "details" keeps the strings of
\* an array and drops its other elements.
FallbackDetails(error_obj) ==
    LET d == ValueGet(error_obj, "details")
        arr == IF d.some THEN AsArray(d.v) ELSE None
    IN  IF arr.some
        THEN Some(SelectSeq([i \in 1..Len(arr.v) |-> AsStr(arr.v[i])],
                            LAMBDA o : o.some))
        ELSE None

FallbackEnvelope(error_obj, error_msg) ==
    [success |-> FALSE,
     profile |-> None,
     error |-> Some(error_msg),
     details |-> IF FallbackDetails(error_obj).some
                 THEN Some([i \in 1..Len(FallbackDetails(error_obj).v) |->
                               FallbackDetails(error_obj).v[i].v])
                 ELSE None]

\* Faulty variant of ParseProfileResponse: one message for both refusals.
ParseProfileResponseSameMessage(body) ==
    IF FromStrProfileResponse(body).ok THEN Ok(FromStrProfileResponse(body).v)
    ELSE LET error_obj == FromStrValue(body)
             e == IF error_obj.ok THEN ValueGet(error_obj.v, "error") ELSE None
             error_msg == IF e.some THEN AsStr(e.v) ELSE None
         IN  IF error_obj.ok /\ error_msg.some
             THEN Ok(FallbackEnvelope(error_obj.v, error_msg.v))
             ELSE Err(Service(<<"Could not parse response: ">> \o body.text))

\* The envelope create_profile, update_profile and get_profile read from
\* the response text (the three copies of the code are the same), or the
\* Service error they return when there is none.
ParseProfileResponse(body) ==
    IF FromStrProfileResponse(body).ok THEN Ok(FromStrProfileResponse(body).v)
    ELSE LET error_obj == FromStrValue(body)
             e == IF error_obj.ok THEN ValueGet(error_obj.v, "error") ELSE None
             error_msg == IF e.some THEN AsStr(e.v) ELSE None
         IN  IF error_obj.ok
             THEN IF error_msg.some
                  THEN Ok(FallbackEnvelope(error_obj.v, error_msg.v))
                  ELSE Err(Service(<<"Invalid response format: ">> \o body.text))
             ELSE Err(Service(<<"Could not parse response: ">> \o body.text))

\* create_profile: the error of a failed envelope.
CreateProfileError(status, r) ==
    CASE status = 400 ->
            IF r.details.some THEN Validation(r.details.v)
            ELSE Service(UnwrapOr(r.error, <<"Validation failed">>))
      [] status = 404 -> NotFound(UnwrapOr(r.error, <<"Not found">>))
      [] OTHER -> Service(UnwrapOr(r.error, <<"Unknown error">>))

\* update_profile: the error of a failed envelope.
UpdateProfileError(status, r) ==
    CASE status = 400 ->
            IF r.details.some THEN Validation(r.details.v)
            ELSE Service(UnwrapOr(r.error, <<"Validation failed">>))
      [] status = 404 -> NotFound(UnwrapOr(r.error, <<"Profile not found">>))
      [] OTHER -> Service(UnwrapOr(r.error, <<"Unknown error">>))

\* Faulty variant of GetProfileError: the 404 arm is missing.
GetProfileErrorNoNotFound(status, r) ==
    Service(UnwrapOr(r.error, <<"Unknown error">>))

\* get_profile: the error of a failed envelope.
GetProfileError(status, r) ==
    CASE status = 404 -> NotFound(UnwrapOr(r.error, <<"Profile not found">>))
      [] OTHER -> Service(UnwrapOr(r.error, <<"Unknown error">>))

\* response_data.profile.ok_or_else(..)
ProfileOr(r) ==
    IF r.profile.some THEN Ok(r.profile.v)
    ELSE Err(Service(<<"No profile in response">>))

\* The error of a failed envelope, by operation.
ProfileError(op, status, r) ==
    CASE op = "create_profile" -> CreateProfileError(status, r)
      [] op = "update_profile" -> UpdateProfileError(status, r)
      [] op = "get_profile" -> GetProfileError(status, r)

\* Faulty variant of ProfileOutcome: a Profile only on a 2xx status.
ProfileOutcomeChecksStatus(op, resp) ==
    IF resp.net = "send_err" THEN Err(Http("send"))
    ELSE IF resp.net = "body_err" THEN Err(Http("body"))
    ELSE LET response_data == ParseProfileResponse(resp.body)
         IN  IF ~response_data.ok THEN response_data
             ELSE IF ~response_data.v.success \/ ~IsSuccess(resp.status)
                  THEN Err(ProfileError(op, resp.status, response_data.v))
                  ELSE ProfileOr(response_data.v)

\* What create_profile, update_profile and get_profile return once the
\* request is sent: a failed send or a failed read of the body is an Http
\* error; otherwise the text is interpreted, whatever the status.
ProfileOutcome(op, resp) ==
    IF resp.net = "send_err" THEN Err(Http("send"))
    ELSE IF resp.net = "body_err" THEN Err(Http("body"))
    ELSE LET response_data == ParseProfileResponse(resp.body)
         IN  IF ~response_data.ok THEN response_data
             ELSE IF ~response_data.v.success
                  THEN Err(ProfileError(op, resp.status, response_data.v))
                  ELSE ProfileOr(response_data.v)

\* Faulty variant of DeleteProfileOutcome: NotFound on status 404.
DeleteProfileOutcomeNotFoundOn404(resp) ==
    IF resp.net = "send_err" THEN Err(Http("send"))
    ELSE IF IsSuccess(resp.status) THEN Ok("unit")
    ELSE IF resp.net = "body_err" THEN Err(Http("body"))
    ELSE LET error_response == FromStrProfileResponse(resp.body)
         IN  IF ~error_response.ok THEN Err(Http("decode"))
             ELSE IF resp.status = 404
                  THEN Err(NotFound(UnwrapOr(error_response.v.error, <<"Delete failed">>)))
                  ELSE Err(Service(UnwrapOr(error_response.v.error, <<"Delete failed">>)))

\* delete_profile once the request is sent: the body is read, by
\* Response::json, only when the status is not 2xx.
DeleteProfileOutcome(resp) ==
    IF resp.net = "send_err" THEN Err(Http("send"))
    ELSE IF IsSuccess(resp.status) THEN Ok("unit")
    ELSE IF resp.net = "body_err" THEN Err(Http("body"))
    ELSE LET error_response == FromStrProfileResponse(resp.body)
         IN  IF ~error_response.ok THEN Err(Http("decode"))
             ELSE Err(Service(UnwrapOr(error_response.v.error, <<"Delete failed">>)))

\* get_profile_image once the request is sent.
GetProfileImageOutcome(resp) ==
    IF resp.net = "send_err" THEN Err(Http("send"))
    ELSE IF ~IsSuccess(resp.status) THEN Err(NotFound(<<"Image not found">>))
    ELSE IF resp.net = "body_err" THEN Err(Http("body"))
    ELSE Ok(resp.body.text)

\* health_check once the request is sent.
HealthCheckOutcome(resp) ==
    IF resp.net = "send_err" THEN Err(Http("send"))
    ELSE IF resp.net = "body_err" THEN Err(Http("body"))
    ELSE LET health == FromStrHealthResponse(resp.body)
         IN  IF health.ok THEN Ok(health.v) ELSE Err(Http("decode"))

\* execute_spell once the request is sent.
ExecuteSpellOutcome(resp) ==
    IF resp.net = "send_err" THEN Err(Http("send"))
    ELSE IF resp.net = "body_err" THEN Err(Http("body"))
    ELSE LET response_data == FromStrMagicResponse(resp.body)
         IN  IF ~response_data.ok THEN Err(Http("decode"))
             ELSE IF ~response_data.v.success
                  THEN Err(Service(UnwrapOr(response_data.v.error,
                                            <<"Spell execution failed">>)))
                  ELSE Ok(response_data.v)

---------------------------------------------------------------------------
(* The responses and arguments tried                                       *)

\* The text of written JSON.
RECURSIVE JsonText(_), ElementsText(_, _), MembersText(_, _)
JsonText(v) ==
    CASE v.t = "null" -> <<"null">>
      [] v.t = "bool" -> IF v.b THEN <<"true">> ELSE <<"false">>
      [] v.t = "num" -> ToDecimal(v.n)
      [] v.t = "str" -> <<"\"">> \o v.s \o <<"\"">>
      [] v.t = "arr" -> <<"[">> \o ElementsText(v.a, 1) \o <<"]">>
      [] v.t = "members" -> <<"{">> \o MembersText(v.m, 1) \o <<"}">>
ElementsText(a, i) ==
    IF i > Len(a) THEN <<>>
    ELSE (IF i > 1 THEN <<",">> ELSE <<>>) \o JsonText(a[i]) \o ElementsText(a, i + 1)
MembersText(m, i) ==
    IF i > Len(m) THEN <<>>
    ELSE (IF i > 1 THEN <<",">> ELSE <<>>)
         \o <<"\"", m[i].k, "\":">> \o JsonText(m[i].v) \o MembersText(m, i + 1)

\* A response body: its text, and the JSON the text writes if it is JSON.
JsonResponseBody(d) == [text |-> JsonText(d), json |-> Some(d)]
TextResponseBody(text) == [text |-> text, json |-> None]

\* A value written by a server that writes each key once, in KeyOrder.
KeyOrder == <<"success", "profile", "error", "details", "uuid", "name", "email",
              "imageFilename", "createdAt", "updatedAt", "bio", "status",
              "service", "version", "timestamp", "message", "result">>

RECURSIVE Written(_)
Written(v) ==
    CASE v.t = "arr" -> JArr([i \in 1..Len(v.a) |-> Written(v.a[i])])
      [] v.t = "obj" ->
            LET keys == SelectSeq(KeyOrder, LAMBDA k : k \in DOMAIN v.o)
            IN  JMembers([i \in 1..Len(keys) |-> JMember(keys[i], Written(v.o[keys[i]]))])
      [] OTHER -> v

\* The JSON object with the members that are present.
ObjectOf(members) ==
    JObj([k \in {x \in DOMAIN members : members[x].some} |-> members[k].v])

ValidProfile ==
    JObj([uuid |-> JStr(<<"u1">>), name |-> JStr(<<"A">>), email |-> JStr(<<"a@x.com">>),
          createdAt |-> JStr(<<"t1">>), updatedAt |-> JStr(<<"t1">>)])
RichProfile ==
    JObj([uuid |-> JStr(<<"u1">>), name |-> JStr(<<"A">>), email |-> JStr(<<"a@x.com">>),
          imageFilename |-> JStr(<<"a.png">>), bio |-> JNum(7),
          createdAt |-> JStr(<<"t1">>), updatedAt |-> JStr(<<"t2">>)])
ProfileWithoutEmail ==
    JObj([uuid |-> JStr(<<"u1">>), name |-> JStr(<<"A">>),
          createdAt |-> JStr(<<"t1">>), updatedAt |-> JStr(<<"t1">>)])

SuccessMembers == {None, Some(JBool(TRUE)), Some(JBool(FALSE)), Some(JStr(<<"yes">>))}
ProfileMembers == {None, Some(ValidProfile), Some(ProfileWithoutEmail)}
ErrorMembers == {None, Some(JStr(<<"Invalid">>)), Some(JNum(5))}
DetailsMembers ==
    {None,
     Some(JArr(<<JStr(<<"name required">>), JStr(<<"email invalid">>)>>)),
     Some(JArr(<<JStr(<<"name required">>), JNum(5)>>)),
     Some(JStr(<<"none">>))}

\* Envelope-shaped objects: each member absent, well typed or ill typed.
EnvelopeValues ==
    {ObjectOf([success |-> s, profile |-> p, error |-> e, details |-> d]) :
        s \in SuccessMembers, p \in ProfileMembers,
        e \in ErrorMembers, d \in DetailsMembers}

\* Other JSON bodies: nulls for the optional members, a profile with extra
\* members, an envelope written as an array, members the client does not
\* know, a health report, and values that are no objects.
OtherValues ==
    {JObj([success |-> JBool(FALSE), profile |-> JNull, error |-> JNull, details |-> JNull]),
     JObj([success |-> JBool(TRUE), profile |-> RichProfile]),
     JObj([success |-> JBool(TRUE), result |-> JNum(1)]),
     JObj([success |-> JBool(FALSE), error |-> JStr(<<"Profile not found">>),
           message |-> JStr(<<"gone">>)]),
     JArr(<<JBool(FALSE), JNull, JStr(<<"Invalid">>), JNull>>),
     JArr(<<JBool(TRUE), ValidProfile, JNull, JNull>>),
     JArr(<<JBool(TRUE)>>),
     JObj([status |-> JStr(<<"ok">>), service |-> JStr(<<"prof">>),
           version |-> JStr(<<"1.0.0">>), timestamp |-> JStr(<<"t1">>)]),
     JStr(<<"error">>),
     JNum(5),
     JNull}

\* Bodies that write a key twice: a field of the envelope, of the profile
\* or of the health report, and keys that name no field.
ValidProfileMembers ==
    <<JMember("name", JStr(<<"A">>)), JMember("email", JStr(<<"a@x.com">>)),
      JMember("createdAt", JStr(<<"t1">>)), JMember("updatedAt", JStr(<<"t1">>))>>
RepeatedMembers ==
    {JMembers(<<JMember("success", JBool(TRUE)), JMember("success", JBool(TRUE)),
                JMember("profile", Written(ValidProfile))>>),
     JMembers(<<JMember("success", JBool(FALSE)), JMember("success", JBool(TRUE)),
                JMember("profile", Written(ValidProfile))>>),
     JMembers(<<JMember("success", JBool(FALSE)), JMember("error", JStr(<<"a">>)),
                JMember("error", JStr(<<"b">>))>>),
     JMembers(<<JMember("success", JBool(FALSE)), JMember("error", JNum(5)),
                JMember("error", JStr(<<"Invalid">>))>>),
     JMembers(<<JMember("success", JBool(FALSE)), JMember("error", JStr(<<"Invalid">>)),
                JMember("error", JNum(5))>>),
     JMembers(<<JMember("success", JBool(TRUE)),
                JMember("profile",
                        JMembers(<<JMember("uuid", JStr(<<"x">>)),
                                   JMember("uuid", JStr(<<"u1">>))>>
                                 \o ValidProfileMembers))>>),
     JMembers(<<JMember("success", JBool(TRUE)),
                JMember("profile",
                        JMembers(<<JMember("uuid", JStr(<<"u1">>)),
                                   JMember("bio", JNum(7)),
                                   JMember("bio", JStr(<<"dev">>))>>
                                 \o ValidProfileMembers))>>),
     JMembers(<<JMember("success", JBool(TRUE)), JMember("success", JBool(TRUE)),
                JMember("result", JNum(1))>>),
     JMembers(<<JMember("success", JBool(TRUE)), JMember("result", JNum(1)),
                JMember("result", JNum(2))>>),
     JMembers(<<JMember("success", JBool(FALSE)), JMember("message", JStr(<<"gone">>)),
                JMember("message", JStr(<<"lost">>)),
                JMember("error", JStr(<<"Invalid">>))>>),
     JMembers(<<JMember("status", JStr(<<"down">>)), JMember("status", JStr(<<"ok">>)),
                JMember("service", JStr(<<"prof">>)), JMember("version", JStr(<<"1.0.0">>)),
                JMember("timestamp", JStr(<<"t1">>))>>)}

ResponseBodies ==
    {JsonResponseBody(Written(v)) : v \in EnvelopeValues \cup OtherValues}
    \cup {JsonResponseBody(d) : d \in RepeatedMembers}
    \cup {TextResponseBody(<<"not json at all">>), TextResponseBody(<<>>)}

Statuses == {200, 204, 400, 404, 500}

\* What the transport does with a request: first the send fails or the
\* status line of a response arrives, then, where the operation reads the
\* body, the read fails or gives the body.
Sends == {[net |-> "send_err"]} \cup {[net |-> "head", status |-> st] : st \in Statuses}
Reads == {[net |-> "body_err"]} \cup {[net |-> "ok", body |-> b] : b \in ResponseBodies}

ProfileDatas == {[name |-> JStr(<<"A">>), email |-> JStr(<<"a@x.com">>)]}
Images ==
    {None,
     Some([bytes |-> <<"b0", "b1">>, filename |-> <<"a", ".", "P", "N", "G">>]),
     Some([bytes |-> <<"b0">>, filename |-> <<"j", "p", "g">>]),
     Some([bytes |-> <<"b0">>, filename |-> <<"Ö", ".", "J", "P", "É", "G">>]),
     Some([bytes |-> <<"b0">>, filename |-> <<"a", ".", "Ο", "Σ">>])}
UuidArgs == {None, Some(<<"pub:other">>)}
SpellNames == {<<"joinup">>}
SpellDatas ==
    {[message |-> JStr(<<"hi">>)],
     [message |-> JStr(<<"hi">>), hash |-> JStr(<<"forged">>), uuid |-> JNum(5)],
     [signature |-> JNull, timestamp |-> JStr(<<"0">>), hash |-> JStr(<<"n1">>)]}

\* The base_url argument of the client whose calls are followed.
ClientUrl == <<"h", ":", "/">>

---------------------------------------------------------------------------
(* Invocations.  The operations take &self, so several calls may be in     *)
(* flight on one client; calls[i] is the i-th future the caller holds.  An *)
(* asynchronous operation runs to its send().await ("send"), resumes when  *)
(* the transport answers with the status line, then, where it reads the    *)
(* body, suspends at text(), json() or bytes() ("body") and resumes when   *)
(* the body is read; "done" holds what it returned.  auth is what          *)
(* get_auth_params returned to the call.  A future that has returned may   *)
(* be replaced by a new call.                                              *)

Slots == 1..MaxInFlight

Idle == [phase |-> "idle"]

\* What Uuid::new_v4 returned to the call of get_auth_params that returned
\* auth: it is called past the signer check only.
Drew(auth, nonce) == IF auth.ok THEN Some(nonce) ELSE None

\* The invocation has sent request req and awaits the answer.  signer is
\* self.sessionless as get_auth_params read it, new_v4 the value
\* Uuid::new_v4 returned to it.
Sent(op, arg, nonce, auth, req) ==
    [phase |-> "send", op |-> op, arg |-> arg, signer |-> client.sessionless,
     new_v4 |-> Drew(auth, nonce), auth |-> auth, req |-> Some(req),
     status |-> None, resp |-> None, result |-> None]

\* The invocation returned without sending a request.
Returned(op, arg, nonce, auth, result) ==
    [phase |-> "done", op |-> op, arg |-> arg, signer |-> client.sessionless,
     new_v4 |-> Drew(auth, nonce), auth |-> auth, req |-> None,
     status |-> None, resp |-> None, result |-> Some(result)]

\* health_check has sent request req: it reads neither self.sessionless
\* nor the clock.
SentUnsigned(op, req) ==
    [phase |-> "send", op |-> op, arg |-> [none |-> TRUE], signer |-> None,
     new_v4 |-> None, auth |-> None, req |-> Some(req), status |-> None, resp |-> None,
     result |-> None]

\* send().await gave a response with this status; the invocation awaits
\* the body.
Received(c, status) == [c EXCEPT !.phase = "body", !.status = Some(status)]

\* The invocation returned after the transport answered resp.
Answered(c, resp, result) ==
    [c EXCEPT !.phase = "done", !.resp = Some(resp), !.result = Some(result)]

\* What the transport gave a call whose response had this status and whose
\* body was read, or failed to be read.
Response(status, read) ==
    IF read.net = "body_err" THEN [net |-> "body_err", status |-> status]
    ELSE [net |-> "ok", status |-> status, body |-> read.body]

InFlight(i) == calls[i].phase \in {"send", "body"}

\* A call borrows the client (&self) from its start until it returns.
CanStart(i) == client.state = "ready" /\ ~InFlight(i)

\* &mut self, and self by value: no call holds the client.
CanMutate == client.state = "ready" /\ \A i \in Slots : ~InFlight(i)

Awaiting(i, op, phase) == calls[i].phase = phase /\ calls[i].op = op

\* ProfClient::new
New ==
    /\ client.state = "none"
    /\ client' = new(url_arg)
    /\ UNCHANGED <<url_arg, now, calls, builder, chain, built>>

\* self.sessionless = Some(sessionless)
SetSigner(c, signer) == [c EXCEPT !.sessionless = Some(signer)]

\* ProfClient::with_sessionless
with_sessionless(signer) ==
    /\ CanMutate
    /\ client' = SetSigner(client, signer)
    /\ UNCHANGED <<url_arg, now, calls, builder, chain, built>>

\* ProfClient::set_sessionless
set_sessionless(signer) ==
    /\ CanMutate
    /\ client' = SetSigner(client, signer)
    /\ UNCHANGED <<url_arg, now, calls, builder, chain, built>>

\* The system clock advances.
Tick ==
    /\ now < MaxClock
    /\ now' = now + 1
    /\ UNCHANGED <<url_arg, client, calls, builder, chain, built>>

\* create_profile up to send().await
create_profile(i, profile_data, image_data, nonce) ==
    /\ CanStart(i)
    /\ LET auth == get_auth_params(client, now, nonce)
           arg == [profile_data |-> profile_data, image_data |-> image_data]
       IN  calls' = [calls EXCEPT ![i] =
             IF ~auth.ok THEN Returned("create_profile", arg, nonce, auth, auth)
             ELSE Sent("create_profile", arg, nonce, auth,
                       Request("POST",
                               Url(ProfilePath(client.base_url, auth.v["uuid"]), {}),
                               MultipartBody(ProfileForm(profile_data, auth.v, image_data))))]
    /\ UNCHANGED <<url_arg, client, now, builder, chain, built>>

\* create_profile from send().await to response.text().await
create_profile_send(i, sent) ==
    /\ Awaiting(i, "create_profile", "send")
    /\ calls' = [calls EXCEPT ![i] =
          IF sent.net = "send_err"
          THEN Answered(@, sent, ProfileOutcome("create_profile", sent))
          ELSE Received(@, sent.status)]
    /\ UNCHANGED <<url_arg, client, now, builder, chain, built>>

\* create_profile from response.text().await on
create_profile_body(i, read) ==
    /\ Awaiting(i, "create_profile", "body")
    /\ LET resp == Response(calls[i].status.v, read)
       IN  calls' = [calls EXCEPT ![i] =
                        Answered(@, resp, ProfileOutcome("create_profile", resp))]
    /\ UNCHANGED <<url_arg, client, now, builder, chain, built>>

\* update_profile up to send().await
update_profile(i, profile_data, image_data, nonce) ==
    /\ CanStart(i)
    /\ LET auth == get_auth_params(client, now, nonce)
           arg == [profile_data |-> profile_data, image_data |-> image_data]
       IN  calls' = [calls EXCEPT ![i] =
             IF ~auth.ok THEN Returned("update_profile", arg, nonce, auth, auth)
             ELSE Sent("update_profile", arg, nonce, auth,
                       Request("PUT",
                               Url(ProfilePath(client.base_url, auth.v["uuid"]), {}),
                               MultipartBody(ProfileForm(profile_data, auth.v, image_data))))]
    /\ UNCHANGED <<url_arg, client, now, builder, chain, built>>

\* update_profile from send().await to response.text().await
update_profile_send(i, sent) ==
    /\ Awaiting(i, "update_profile", "send")
    /\ calls' = [calls EXCEPT ![i] =
          IF sent.net = "send_err"
          THEN Answered(@, sent, ProfileOutcome("update_profile", sent))
          ELSE Received(@, sent.status)]
    /\ UNCHANGED <<url_arg, client, now, builder, chain, built>>

\* update_profile from response.text().await on
update_profile_body(i, read) ==
    /\ Awaiting(i, "update_profile", "body")
    /\ LET resp == Response(calls[i].status.v, read)
       IN  calls' = [calls EXCEPT ![i] =
                        Answered(@, resp, ProfileOutcome("update_profile", resp))]
    /\ UNCHANGED <<url_arg, client, now, builder, chain, built>>

\* get_profile up to send().await
get_profile(i, uuid, nonce) ==
    /\ CanStart(i)
    /\ LET auth == get_auth_params(client, now, nonce)
           arg == [uuid |-> uuid]
       IN  calls' = [calls EXCEPT ![i] =
             IF ~auth.ok THEN Returned("get_profile", arg, nonce, auth, auth)
             ELSE Sent("get_profile", arg, nonce, auth,
                       Request("GET",
                               Url(ProfilePath(client.base_url, TargetUuid(uuid, auth.v)),
                                   QueryParams(auth.v)),
                               NoBody))]
    /\ UNCHANGED <<url_arg, client, now, builder, chain, built>>

\* get_profile from send().await to response.text().await
get_profile_send(i, sent) ==
    /\ Awaiting(i, "get_profile", "send")
    /\ calls' = [calls EXCEPT ![i] =
          IF sent.net = "send_err"
          THEN Answered(@, sent, ProfileOutcome("get_profile", sent))
          ELSE Received(@, sent.status)]
    /\ UNCHANGED <<url_arg, client, now, builder, chain, built>>

\* get_profile from response.text().await on
get_profile_body(i, read) ==
    /\ Awaiting(i, "get_profile", "body")
    /\ LET resp == Response(calls[i].status.v, read)
       IN  calls' = [calls EXCEPT ![i] =
                        Answered(@, resp, ProfileOutcome("get_profile", resp))]
    /\ UNCHANGED <<url_arg, client, now, builder, chain, built>>

\* delete_profile up to send().await
delete_profile(i, nonce) ==
    /\ CanStart(i)
    /\ LET auth == get_auth_params(client, now, nonce)
           arg == [none |-> TRUE]
       IN  calls' = [calls EXCEPT ![i] =
             IF ~auth.ok THEN Returned("delete_profile", arg, nonce, auth, auth)
             ELSE Sent("delete_profile", arg, nonce, auth,
                       Request("DELETE",
                               Url(ProfilePath(client.base_url, auth.v["uuid"]), {}),
                               JsonBody([k \in DOMAIN auth.v |-> JStr(auth.v[k])])))]
    /\ UNCHANGED <<url_arg, client, now, builder, chain, built>>

\* delete_profile from send().await on: it returns on a 2xx status, the
\* body unread, and goes on to response.json().await on any other.
delete_profile_send(i, sent) ==
    /\ Awaiting(i, "delete_profile", "send")
    /\ calls' = [calls EXCEPT ![i] =
          IF sent.net = "send_err" \/ IsSuccess(sent.status)
          THEN Answered(@, sent, DeleteProfileOutcome(sent))
          ELSE Received(@, sent.status)]
    /\ UNCHANGED <<url_arg, client, now, builder, chain, built>>

\* delete_profile from response.json().await on
delete_profile_body(i, read) ==
    /\ Awaiting(i, "delete_profile", "body")
    /\ LET resp == Response(calls[i].status.v, read)
       IN  calls' = [calls EXCEPT ![i] = Answered(@, resp, DeleteProfileOutcome(resp))]
    /\ UNCHANGED <<url_arg, client, now, builder, chain, built>>

\* get_profile_image up to send().await
get_profile_image(i, uuid, nonce) ==
    /\ CanStart(i)
    /\ LET auth == get_auth_params(client, now, nonce)
           arg == [uuid |-> uuid]
       IN  calls' = [calls EXCEPT ![i] =
             IF ~auth.ok THEN Returned("get_profile_image", arg, nonce, auth, auth)
             ELSE Sent("get_profile_image", arg, nonce, auth,
                       Request("GET",
                               Url(ImagePath(client.base_url, TargetUuid(uuid, auth.v)),
                                   QueryParams(auth.v)),
                               NoBody))]
    /\ UNCHANGED <<url_arg, client, now, builder, chain, built>>

\* get_profile_image from send().await on: it returns on a status that is
\* not 2xx and goes on to response.bytes().await on a 2xx status.
get_profile_image_send(i, sent) ==
    /\ Awaiting(i, "get_profile_image", "send")
    /\ calls' = [calls EXCEPT ![i] =
          IF sent.net = "send_err" \/ ~IsSuccess(sent.status)
          THEN Answered(@, sent, GetProfileImageOutcome(sent))
          ELSE Received(@, sent.status)]
    /\ UNCHANGED <<url_arg, client, now, builder, chain, built>>

\* get_profile_image from response.bytes().await on
get_profile_image_body(i, read) ==
    /\ Awaiting(i, "get_profile_image", "body")
    /\ LET resp == Response(calls[i].status.v, read)
       IN  calls' = [calls EXCEPT ![i] = Answered(@, resp, GetProfileImageOutcome(resp))]
    /\ UNCHANGED <<url_arg, client, now, builder, chain, built>>

\* get_profile_image_url: no request is sent and nothing is awaited.
get_profile_image_url(i, uuid, nonce) ==
    /\ CanStart(i)
    /\ LET auth == get_auth_params(client, now, nonce)
           arg == [uuid |-> uuid]
       IN  calls' = [calls EXCEPT ![i] =
             IF ~auth.ok THEN Returned("get_profile_image_url", arg, nonce, auth, auth)
             ELSE Returned("get_profile_image_url", arg, nonce, auth,
                           Ok(Url(ImagePath(client.base_url, TargetUuid(uuid, auth.v)),
                                  QueryParams(auth.v))))]
    /\ UNCHANGED <<url_arg, client, now, builder, chain, built>>

\* health_check up to send().await: get_auth_params is not called.
health_check(i) ==
    /\ CanStart(i)
    /\ calls' = [calls EXCEPT ![i] =
          SentUnsigned("health_check",
                       Request("GET", Url(client.base_url \o <<"/health">>, {}), NoBody))]
    /\ UNCHANGED <<url_arg, client, now, builder, chain, built>>

\* health_check from send().await to response.json().await
health_check_send(i, sent) ==
    /\ Awaiting(i, "health_check", "send")
    /\ calls' = [calls EXCEPT ![i] =
          IF sent.net = "send_err"
          THEN Answered(@, sent, HealthCheckOutcome(sent))
          ELSE Received(@, sent.status)]
    /\ UNCHANGED <<url_arg, client, now, builder, chain, built>>

\* health_check from response.json().await on
health_check_body(i, read) ==
    /\ Awaiting(i, "health_check", "body")
    /\ LET resp == Response(calls[i].status.v, read)
       IN  calls' = [calls EXCEPT ![i] = Answered(@, resp, HealthCheckOutcome(resp))]
    /\ UNCHANGED <<url_arg, client, now, builder, chain, built>>

\* execute_spell up to send().await
execute_spell(i, spell_name, spell_data, nonce) ==
    /\ CanStart(i)
    /\ LET auth == get_auth_params(client, now, nonce)
           arg == [spell_name |-> spell_name, spell_data |-> spell_data]
       IN  calls' = [calls EXCEPT ![i] =
             IF ~auth.ok THEN Returned("execute_spell", arg, nonce, auth, auth)
             ELSE Sent("execute_spell", arg, nonce, auth,
                       Request("POST",
                               Url(client.base_url \o <<"/magic/spell/">> \o spell_name, {}),
                               JsonBody(SpellBody(spell_data, auth.v))))]
    /\ UNCHANGED <<url_arg, client, now, builder, chain, built>>

\* execute_spell from send().await to response.json().await
execute_spell_send(i, sent) ==
    /\ Awaiting(i, "execute_spell", "send")
    /\ calls' = [calls EXCEPT ![i] =
          IF sent.net = "send_err"
          THEN Answered(@, sent, ExecuteSpellOutcome(sent))
          ELSE Received(@, sent.status)]
    /\ UNCHANGED <<url_arg, client, now, builder, chain, built>>

\* execute_spell from response.json().await on
execute_spell_body(i, read) ==
    /\ Awaiting(i, "execute_spell", "body")
    /\ LET resp == Response(calls[i].status.v, read)
       IN  calls' = [calls EXCEPT ![i] = Answered(@, resp, ExecuteSpellOutcome(resp))]
    /\ UNCHANGED <<url_arg, client, now, builder, chain, built>>

---------------------------------------------------------------------------
(* Specifications                                                          *)

\* The first call is followed with every argument and answer tried; the
\* calls in flight beside it are health_check with one answer.
FollowedSlots == {1}
NoCalls == [i \in Slots |-> Idle]

\* A few answers of each kind, for the specification that follows the
\* requests: a failed send and two statuses; an unreadable body, a
\* profile, text that is no JSON.
FewSends ==
    {[net |-> "send_err"], [net |-> "head", status |-> 200],
     [net |-> "head", status |-> 404]}
FewReads ==
    {[net |-> "body_err"],
     [net |-> "ok",
      body |-> JsonResponseBody(Written(
                  JObj([success |-> JBool(TRUE), profile |-> RichProfile])))],
     [net |-> "ok", body |-> TextResponseBody(<<"not json at all">>)]}

\* The answers to call i.
SendsOf(i, sends) ==
    IF i \in FollowedSlots THEN sends ELSE {[net |-> "head", status |-> 200]}
ReadsOf(i, reads) ==
    IF i \in FollowedSlots THEN reads
    ELSE {[net |-> "ok", body |-> TextResponseBody(<<"not json at all">>)]}

\* The client after ProfClient::new(ClientUrl): its signer, the clock and
\* the requests of its calls, with a few answers.
Init ==
    /\ url_arg = ClientUrl
    /\ client = new(ClientUrl)
    /\ now = 0
    /\ calls = NoCalls
    /\ builder = EmptyMap
    /\ chain = <<>>
    /\ built = None

Next ==
    \/ \E s \in Signers : with_sessionless(s)
    \/ \E s \in Signers : set_sessionless(s)
    \/ Tick
    \/ \E i \in FollowedSlots, d \in ProfileDatas, img \in Images, n \in Nonces :
          create_profile(i, d, img, n)
    \/ \E i \in FollowedSlots, s \in FewSends : create_profile_send(i, s)
    \/ \E i \in FollowedSlots, r \in FewReads : create_profile_body(i, r)
    \/ \E i \in FollowedSlots, d \in ProfileDatas, img \in Images, n \in Nonces :
          update_profile(i, d, img, n)
    \/ \E i \in FollowedSlots, s \in FewSends : update_profile_send(i, s)
    \/ \E i \in FollowedSlots, r \in FewReads : update_profile_body(i, r)
    \/ \E i \in FollowedSlots, u \in UuidArgs, n \in Nonces : get_profile(i, u, n)
    \/ \E i \in FollowedSlots, s \in FewSends : get_profile_send(i, s)
    \/ \E i \in FollowedSlots, r \in FewReads : get_profile_body(i, r)
    \/ \E i \in FollowedSlots, n \in Nonces : delete_profile(i, n)
    \/ \E i \in FollowedSlots, s \in FewSends : delete_profile_send(i, s)
    \/ \E i \in FollowedSlots, r \in FewReads : delete_profile_body(i, r)
    \/ \E i \in FollowedSlots, u \in UuidArgs, n \in Nonces : get_profile_image(i, u, n)
    \/ \E i \in FollowedSlots, s \in FewSends : get_profile_image_send(i, s)
    \/ \E i \in FollowedSlots, r \in FewReads : get_profile_image_body(i, r)
    \/ \E i \in FollowedSlots, u \in UuidArgs, n \in Nonces :
          get_profile_image_url(i, u, n)
    \/ \E i \in Slots : health_check(i)
    \/ \E i \in Slots : \E s \in SendsOf(i, FewSends) : health_check_send(i, s)
    \/ \E i \in Slots : \E r \in ReadsOf(i, FewReads) : health_check_body(i, r)
    \/ \E i \in FollowedSlots, name_ \in SpellNames, d \in SpellDatas, n \in Nonces :
          execute_spell(i, name_, d, n)
    \/ \E i \in FollowedSlots, s \in FewSends : execute_spell_send(i, s)
    \/ \E i \in FollowedSlots, r \in FewReads : execute_spell_body(i, r)

Spec == Init /\ [][Next]_vars

\* The answers: a client with a signer, the calls of each operation that
\* reads an answer, and every answer of Sends and Reads.
InitAnswers ==
    /\ url_arg = ClientUrl
    /\ client = SetSigner(new(ClientUrl), "k1")
    /\ now = 0
    /\ calls = NoCalls
    /\ builder = EmptyMap
    /\ chain = <<>>
    /\ built = None

NextAnswers ==
    \/ \E i \in FollowedSlots, d \in ProfileDatas : create_profile(i, d, None, "n1")
    \/ \E i \in FollowedSlots, s \in Sends : create_profile_send(i, s)
    \/ \E i \in FollowedSlots, r \in Reads : create_profile_body(i, r)
    \/ \E i \in FollowedSlots, d \in ProfileDatas : update_profile(i, d, None, "n1")
    \/ \E i \in FollowedSlots, s \in Sends : update_profile_send(i, s)
    \/ \E i \in FollowedSlots, r \in Reads : update_profile_body(i, r)
    \/ \E i \in FollowedSlots : get_profile(i, None, "n1")
    \/ \E i \in FollowedSlots, s \in Sends : get_profile_send(i, s)
    \/ \E i \in FollowedSlots, r \in Reads : get_profile_body(i, r)
    \/ \E i \in FollowedSlots : delete_profile(i, "n1")
    \/ \E i \in FollowedSlots, s \in Sends : delete_profile_send(i, s)
    \/ \E i \in FollowedSlots, r \in Reads : delete_profile_body(i, r)
    \/ \E i \in FollowedSlots : get_profile_image(i, None, "n1")
    \/ \E i \in FollowedSlots, s \in Sends : get_profile_image_send(i, s)
    \/ \E i \in FollowedSlots, r \in Reads : get_profile_image_body(i, r)
    \/ \E i \in Slots : health_check(i)
    \/ \E i \in Slots : \E s \in SendsOf(i, Sends) : health_check_send(i, s)
    \/ \E i \in Slots : \E r \in ReadsOf(i, Reads) : health_check_body(i, r)
    \/ \E i \in FollowedSlots, d \in SpellDatas : execute_spell(i, <<"joinup">>, d, "n1")
    \/ \E i \in FollowedSlots, s \in Sends : execute_spell_send(i, s)
    \/ \E i \in FollowedSlots, r \in Reads : execute_spell_body(i, r)

SpecAnswers == InitAnswers /\ [][NextAnswers]_vars

\* Calls in flight together: a client with a signer, every operation from
\* every future the caller holds, all within one millisecond, one argument
\* and one answer each.
OneSend == [net |-> "head", status |-> 404]
OneRead ==
    [net |-> "ok",
     body |-> JsonResponseBody(Written(
                 JObj([success |-> JBool(FALSE), error |-> JStr(<<"Profile not found">>)])))]

InitOverlap == InitAnswers

NextOverlap ==
    \/ \E i \in Slots, d \in ProfileDatas, n \in Nonces :
          create_profile(i, d, None, n)
    \/ \E i \in Slots : create_profile_send(i, OneSend)
    \/ \E i \in Slots : create_profile_body(i, OneRead)
    \/ \E i \in Slots, d \in ProfileDatas, n \in Nonces :
          update_profile(i, d, None, n)
    \/ \E i \in Slots : update_profile_send(i, OneSend)
    \/ \E i \in Slots : update_profile_body(i, OneRead)
    \/ \E i \in Slots, n \in Nonces :
          get_profile(i, None, n)
    \/ \E i \in Slots : get_profile_send(i, OneSend)
    \/ \E i \in Slots : get_profile_body(i, OneRead)
    \/ \E i \in Slots, n \in Nonces :
          delete_profile(i, n)
    \/ \E i \in Slots : delete_profile_send(i, OneSend)
    \/ \E i \in Slots : delete_profile_body(i, OneRead)
    \/ \E i \in Slots, n \in Nonces :
          get_profile_image(i, None, n)
    \/ \E i \in Slots, s \in {OneSend, [net |-> "head", status |-> 200]} :
          get_profile_image_send(i, s)
    \/ \E i \in Slots : get_profile_image_body(i, OneRead)
    \/ \E i \in Slots, n \in Nonces :
          get_profile_image_url(i, None, n)
    \/ \E i \in Slots : health_check(i)
    \/ \E i \in Slots : health_check_send(i, OneSend)
    \/ \E i \in Slots : health_check_body(i, OneRead)
    \/ \E i \in Slots, n \in Nonces :
          execute_spell(i, <<"joinup">>, [message |-> JStr(<<"hi">>)], n)
    \/ \E i \in Slots : execute_spell_send(i, OneSend)
    \/ \E i \in Slots : execute_spell_body(i, OneRead)

SpecOverlap == InitOverlap /\ [][NextOverlap]_vars

\* ProfClient::new on every base_url argument.
InitNew ==
    /\ url_arg \in UrlArgs
    /\ client = Unbuilt
    /\ now = 0
    /\ calls = NoCalls
    /\ builder = EmptyMap
    /\ chain = <<>>
    /\ built = None

NextNew == New

SpecNew == InitNew /\ [][NextNew]_vars

\* A ProfileBuilder from ProfileBuilder::new to build.
InitBuilder == Init

NextBuilder ==
    \/ \E n \in NameArgs : name(n)
    \/ \E e \in EmailArgs : email(e)
    \/ \E k \in FieldKeys, x \in FieldArgs : field(k, x)
    \/ build

SpecBuilder == InitBuilder /\ [][NextBuilder]_vars

---------------------------------------------------------------------------
(* Properties                                                              *)

ProfileOps == {"create_profile", "update_profile", "get_profile"}
AuthOps == ProfileOps \cup {"delete_profile", "get_profile_image",
                            "get_profile_image_url", "execute_spell"}

\* A profile operation has returned after the transport delivered a
\* response (status and readable body).  The claims are about every call
\* on the client, whatever else is in flight.
ProfileCallAnswered(call) ==
    /\ call.phase = "done"
    /\ call.op \in ProfileOps
    /\ call.resp.some
    /\ call.resp.v.net = "ok"

\* The body is JSON with a string member "error".
HasStringError(body) ==
    /\ FromStrValue(body).ok
    /\ FromStrValue(body).v.t = "obj"
    /\ "error" \in DOMAIN FromStrValue(body).v.o
    /\ FromStrValue(body).v.o["error"].t = "str"

\* The NotFound default of each profile operation.
NotFoundDefault(op) ==
    IF op = "create_profile" THEN <<"Not found">> ELSE <<"Profile not found">>

\* C1 (as claimed): for create_profile, update_profile and get_profile, a
\* failed envelope with status 400 gives Validation with exactly the details
\* list when details is present, and Service with the envelope's error
\* (default "Validation failed") when details is absent.
C1_ValidationOn400 ==
    \A i \in Slots : LET call == calls[i] IN
    ProfileCallAnswered(call) =>
        LET env == ParseProfileResponse(call.resp.v.body)
        IN  (env.ok /\ ~env.v.success /\ call.resp.v.status = 400) =>
                call.result.v =
                    IF env.v.details.some
                    THEN Err(Validation(env.v.details.v))
                    ELSE Err(Service(UnwrapOr(env.v.error, <<"Validation failed">>)))

\* C1 on create_profile and update_profile alone, where the code has the 400
\* arm: Validation with exactly the details list, else Service with error,
\* default "Validation failed".
C1_HoldsForCreateAndUpdate ==
    \A i \in Slots : LET call == calls[i] IN
    (ProfileCallAnswered(call) /\ call.op # "get_profile") =>
        LET env == ParseProfileResponse(call.resp.v.body)
        IN  (env.ok /\ ~env.v.success /\ call.resp.v.status = 400) =>
                call.result.v =
                    IF env.v.details.some
                    THEN Err(Validation(env.v.details.v))
                    ELSE Err(Service(UnwrapOr(env.v.error, <<"Validation failed">>)))

\* C2: for create_profile, update_profile and get_profile, a failed envelope
\* with status 404 gives NotFound with the envelope's error, or the
\* operation's default when error is absent; with any status other than 400
\* and 404 it gives Service with error, default "Unknown error".
C2_NotFoundAndOtherStatuses ==
    \A i \in Slots : LET call == calls[i] IN
    ProfileCallAnswered(call) =>
        LET env == ParseProfileResponse(call.resp.v.body)
            status == call.resp.v.status
        IN  (env.ok /\ ~env.v.success) =>
                /\ status = 404 =>
                     call.result.v =
                        Err(NotFound(UnwrapOr(env.v.error, NotFoundDefault(call.op))))
                /\ status \notin {400, 404} =>
                     call.result.v =
                        Err(Service(UnwrapOr(env.v.error, <<"Unknown error">>)))

\* C2 witness: each operation has answered a 404 whose envelope carries no
\* error with its own default; here create_profile.
C2_Witness ==
    \E i \in Slots : LET call == calls[i] IN
    /\ ProfileCallAnswered(call)
    /\ call.op = "create_profile"
    /\ call.resp.v.status = 404
    /\ call.resp.v.body = JsonResponseBody(Written(JObj([success |-> JBool(FALSE)])))
    /\ call.result.v = Err(NotFound(<<"Not found">>))

\* C3: for create_profile, update_profile and get_profile, at every status:
\* a body that is neither a full envelope nor JSON with a string "error"
\* gives a Service error carrying the raw text and no profile; the message
\* for text that is no JSON differs from the one for JSON without "error".
C3_UnparseableBodyIsServiceError ==
    \A i \in Slots : LET call == calls[i] IN
    ProfileCallAnswered(call) =>
        LET body == call.resp.v.body
            neither == ~FromStrProfileResponse(body).ok /\ ~HasStringError(body)
            not_json == <<"Could not parse response: ">> \o body.text
            no_error == <<"Invalid response format: ">> \o body.text
        IN  neither =>
                /\ ~call.result.v.ok
                /\ call.result.v.e.variant = "Service"
                /\ call.result.v.e.msg = IF body.json.some THEN no_error ELSE not_json
                /\ call.result.v.e.msg # IF body.json.some THEN not_json ELSE no_error

\* C3 witness: a 2xx answer whose body is JSON without "error" and no
\* envelope has been refused.
C3_Witness ==
    \E i \in Slots : LET call == calls[i] IN
    /\ ProfileCallAnswered(call)
    /\ call.resp.v.status = 200
    /\ call.resp.v.body.json.some
    /\ call.resp.v.body.json.v = JNum(5)
    /\ call.result.v = Err(Service(<<"Invalid response format: ", "5">>))

\* C4: without a signer every authenticated operation returns an Auth error
\* and sends no request; with a signer get_auth_params returns exactly the
\* keys uuid, timestamp, hash and signature; health_check sends its request
\* with or without a signer.
C4_AuthRequiredBeforeAnyRequest ==
    \A i \in Slots : LET call == calls[i] IN
    call.phase # "idle" =>
        /\ (call.op \in AuthOps /\ ~call.signer.some) =>
              /\ call.phase = "done"
              /\ ~call.req.some
              /\ ~call.result.v.ok
              /\ call.result.v.e.variant = "Auth"
        /\ (call.op \in AuthOps /\ call.signer.some) =>
              /\ call.auth.ok
              /\ DOMAIN call.auth.v = AuthKeys
        /\ call.op = "health_check" =>
              /\ call.req.some
              /\ call.result.some /\ ~call.result.v.ok =>
                    call.result.v.e.variant # "Auth"

\* C4 witness: execute_spell was called on a client without a signer.
C4_Witness ==
    \E i \in Slots : LET call == calls[i] IN
    /\ call.phase = "done"
    /\ call.op = "execute_spell"
    /\ ~call.signer.some
    /\ ~call.req.some
    /\ call.result.v = Err(Auth(<<"Sessionless not configured">>))

\* The call went past get_auth_params and holds the map it returned.
HasAuth(call) ==
    /\ call.phase # "idle"
    /\ call.op \in AuthOps
    /\ call.auth.ok

DeleteAnswered(call) ==
    /\ call.phase = "done"
    /\ call.op = "delete_profile"
    /\ call.resp.some
    /\ call.resp.v.net # "send_err"

\* C6 (as claimed): delete_profile returns nothing on a 2xx status and, on
\* every other status, a Service error.
C6_NonSuccessIsServiceError ==
    \A i \in Slots : LET call == calls[i] IN
    DeleteAnswered(call) =>
        IF IsSuccess(call.resp.v.status)
        THEN call.result.v = Ok("unit")
        ELSE ~call.result.v.ok /\ call.result.v.e.variant = "Service"

\* C6 (amended): delete_profile returns nothing on a 2xx status, whatever
\* the body, readable or not; on every other status (404 included) it
\* returns a Service error with the envelope's error (default "Delete
\* failed") when the body is a full envelope, and an Http error when the
\* body cannot be read or is no full envelope.
C6_NonSuccessIsServiceOrDecodeError ==
    \A i \in Slots : LET call == calls[i] IN
    DeleteAnswered(call) =>
        LET resp == call.resp.v
        IN  IF IsSuccess(resp.status)
            THEN call.result.v = Ok("unit")
            ELSE IF resp.net = "ok" /\ FromStrProfileResponse(resp.body).ok
                 THEN call.result.v =
                        Err(Service(UnwrapOr(FromStrProfileResponse(resp.body).v.error,
                                             <<"Delete failed">>)))
                 ELSE ~call.result.v.ok /\ call.result.v.e.variant = "Http"

\* C6 witness: a 404 whose body is a failed envelope with an error.
C6_Witness ==
    \E i \in Slots : LET call == calls[i] IN
    /\ DeleteAnswered(call)
    /\ call.resp.v.net = "ok"
    /\ call.resp.v.status = 404
    /\ call.resp.v.body =
          JsonResponseBody(Written(JObj([success |-> JBool(FALSE),
                                         error |-> JStr(<<"Profile not found">>),
                                         message |-> JStr(<<"gone">>)])))
    /\ call.result.v = Err(Service(<<"Profile not found">>))

\* C7 (as claimed): new stores base_url with one trailing '/' removed, and
\* unchanged when it has none.
C7_OneTrailingSlashStripped ==
    client.state = "ready" =>
        client.base_url =
            IF EndsWith(url_arg, "/") THEN SubSeq(url_arg, 1, Len(url_arg) - 1)
            ELSE url_arg

\* C7 (amended): new stores base_url with every trailing '/' removed: the
\* stored string is the argument up to its last character that is not '/',
\* so it never ends in '/', and an argument without a trailing '/' is stored
\* unchanged.
C7_AllTrailingSlashesStripped ==
    client.state = "ready" =>
        /\ Len(client.base_url) <= Len(url_arg)
        /\ client.base_url = SubSeq(url_arg, 1, Len(client.base_url))
        /\ \A i \in (Len(client.base_url) + 1)..Len(url_arg) : url_arg[i] = "/"
        /\ ~EndsWith(client.base_url, "/")
        /\ ~EndsWith(url_arg, "/") => client.base_url = url_arg

\* C7 witness: an argument ending in "//".
C7_Witness ==
    /\ client.state = "ready"
    /\ url_arg = <<"h", "/", "/">>
    /\ client.base_url = <<"h">>

\* Call i of the chain sets key k: field with a value that does not
\* serialize sets nothing.
SetsKey(i, k) == chain[i].key = k /\ ToValue(chain[i].arg).some

\* The chain with calls i and i + 1 exchanged.
Swapped(c, i) ==
    [j \in 1..Len(c) |-> IF j = i THEN c[i + 1] ELSE IF j = i + 1 THEN c[i] ELSE c[j]]

\* The data a chain of calls leaves, from ProfileBuilder::new on.
RECURSIVE Replay(_)
Replay(c) ==
    IF c = <<>> THEN EmptyMap
    ELSE BuilderApply(Replay(SubSeq(c, 1, Len(c) - 1)), c[Len(c)])

\* C8: build returns, for every key, the value of the last call that set it
\* (name and email set "name" and "email", as field does), holds no key that
\* no call set, and is the same when two neighbouring calls for different
\* keys are exchanged.
C8_LastWriteWins ==
    built.some =>
        /\ \A k \in DOMAIN built.v : \E i \in 1..Len(chain) : SetsKey(i, k)
        /\ \A i \in 1..Len(chain) :
              \A k \in {"name", "email", "bio"} :
                 (SetsKey(i, k) /\ \A j \in (i + 1)..Len(chain) : ~SetsKey(j, k)) =>
                    /\ k \in DOMAIN built.v
                    /\ built.v[k] = ToValue(chain[i].arg).v
        /\ \A i \in 1..(Len(chain) - 1) :
              chain[i].key # chain[i + 1].key => Replay(Swapped(chain, i)) = built.v

\* C8 witness: name(..), then field("name", ..) with another value, then
\* email(..), then build.
C8_Witness ==
    /\ built.some
    /\ Len(chain) = 3
    /\ chain[1].m = "name"
    /\ chain[2].m = "field" /\ chain[2].key = "name" /\ chain[2].arg = RInt(30)
    /\ chain[3].m = "email"
    /\ built.v["name"] = JNum(30)

\* C9: given a delivered response, create_profile, update_profile and
\* get_profile return a Profile exactly when the body is a full envelope
\* with success true and a profile, whatever the status, and then that
\* profile; a full envelope with success true and no profile gives Service
\* "No profile in response"; a body that is no full envelope returns no
\* Profile, with or without a string "error".
C9_ProfileIffSuccessEnvelope ==
    \A i \in Slots : LET call == calls[i] IN
    ProfileCallAnswered(call) =>
        LET full == FromStrProfileResponse(call.resp.v.body)
        IN  /\ call.result.v.ok <=> (full.ok /\ full.v.success /\ full.v.profile.some)
            /\ call.result.v.ok => call.result.v.v = full.v.profile.v
            /\ (full.ok /\ full.v.success /\ ~full.v.profile.some) =>
                  call.result.v = Err(Service(<<"No profile in response">>))
            /\ (~full.ok /\ HasStringError(call.resp.v.body)) =>
                  /\ ~call.result.v.ok
                  /\ call.result.v.e.variant # "Http"

\* C9 witness: a Profile returned from a response with status 500.
C9_Witness ==
    \E i \in Slots : LET call == calls[i] IN
    /\ ProfileCallAnswered(call)
    /\ call.resp.v.status = 500
    /\ call.result.v.ok
    /\ call.result.v.v.name = <<"A">>

\* C10: the JSON body execute_spell sends maps uuid, timestamp, hash and
\* signature to the strings get_auth_params returned to this call, whatever
\* spell_data held for them, maps every other key of spell_data to its
\* value, and has no other key.
C10_AuthFieldsOverrideSpellData ==
    \A i \in Slots : LET call == calls[i] IN
    (call.phase # "idle" /\ call.op = "execute_spell" /\ call.req.some) =>
        LET sent == call.req.v.body.v
            spell_data == call.arg.spell_data
        IN  /\ DOMAIN sent = (DOMAIN spell_data) \cup AuthKeys
            /\ \A k \in AuthKeys : sent[k] = JStr(call.auth.v[k])
            /\ \A k \in (DOMAIN spell_data) \ AuthKeys : sent[k] = spell_data[k]

\* C10 witness: spell_data came with its own hash and uuid.
C10_Witness ==
    \E i \in Slots : LET call == calls[i] IN
    /\ call.phase # "idle"
    /\ call.op = "execute_spell"
    /\ call.req.some
    /\ "hash" \in DOMAIN call.arg.spell_data
    /\ call.arg.spell_data["hash"] = JStr(<<"forged">>)
    /\ call.req.v.body.v["hash"] = JStr(<<"n2">>)
    /\ call.req.v.body.v["uuid"] = JStr(<<"pub:", "k1">>)

====
